---- MODULE Spec2Model ----
(***************************************************************************)
(* Model of wifi-test (src/wifi_test): the `speedtest` command of cli.py   *)
(* and the functions of cli.py, speedtest.py and scanner.py it is built    *)
(* from, with the store of db.py.                                          *)
(*                                                                         *)
(* The specifications of the module:                                       *)
(*   Spec      the `speedtest` command, statement by statement, in its     *)
(*             campaign (--auto-connect) and single-network modes,         *)
(*             against a nondeterministic environment;                     *)
(*   SpecTool  one run of a tool dispatch (cli._run_speedtest_for_tool, or *)
(*             the non-quiet single-network block of speedtest) with any   *)
(*             configuration and any per-port runner behaviour;            *)
(*   SpecWait  one call of speedtest.wait_for_connection against any       *)
(*             sequence of device states nmcli can print;                  *)
(*   SpecCand  one construction of the campaign's candidate list from any  *)
(*             scan, prefix and limit;                                     *)
(*   SpecScan  one call of scanner.scan_wifi against any sequence of       *)
(*             outcomes of the iw command;                                 *)
(*   SpecParse one call of scanner.parse_iw_scan_output on any input of up *)
(*             to MaxLines lines, and a second call on the same text;      *)
(*   SpecBand  one call of scanner.get_band;                               *)
(*   SpecJson  one call of speedtest.parse_ookla_json or parse_iperf3_json *)
(*             on any payload;                                             *)
(*   SpecDb    any sequence of db.insert_scan_results and                  *)
(*             db.insert_speedtest_result calls on an empty store.         *)
(*                                                                         *)
(* Conventions.  Text the code inspects character by character (an ssid    *)
(* for startswith, a device state for `in`) is a sequence of one-character *)
(* strings.  Python's None and "" are both falsy and are both modelled by  *)
(* the empty value (<<>> for text, "" for identifiers).                    *)
(***************************************************************************)
EXTENDS Integers, Sequences, FiniteSets, TLC

\* ------------------------------------------------------------------ bounds
\* Most networks one scan returns.
MaxScan == 3
\* Largest --limit value tried (0 and negative values mean "no cap").
MaxLimit == 2

\* ---------------------------------------------------------------- helpers
None == <<>>
Truthy(v) == v # <<>>

\* str.startswith(prefix), cli.py:554
StartsWith(s, p) == Len(s) >= Len(p) /\ SubSeq(s, 1, Len(p)) = p

\* ssids a scan can report (parse_iw_scan_output never emits an empty one)
\* and the prefix filter; signals in dBm.
Ssids == { <<"l", "a">>, <<"l", "b">>, <<"h">> }
Prefixes == { None, <<"l">> }
Signals == { -70, -50 }
\* A bssid is the number of the radio; 0 stands for "no bssid" (None).
NoBssid == 0

\* WifiScanResult, scanner.py:11-22 (the fields the campaign reads).
Network(b, s, g) == [bssid |-> b, ssid |-> s, signal |-> g]

\* A scan reports each radio (bssid) once, the k-th block being radio k.
RECURSIVE ScansOfLen(_)
ScansOfLen(n) ==
    IF n = 0 THEN { <<>> }
    ELSE { Append(sc, Network(n, s, g)) :
             sc \in ScansOfLen(n - 1), s \in Ssids, g \in Signals }
Scans == UNION { ScansOfLen(n) : n \in 0..MaxScan }

\* [n for n in networks if n.ssid.startswith(prefix)], cli.py:554
RECURSIVE FilterByPrefix(_, _)
FilterByPrefix(nets, p) ==
    IF nets = <<>> THEN <<>>
    ELSE IF StartsWith(Head(nets).ssid, p)
         THEN <<Head(nets)>> \o FilterByPrefix(Tail(nets), p)
         ELSE FilterByPrefix(Tail(nets), p)

\* list.sort(key=signal, reverse=True), cli.py:557: a stable sort, so an
\* element is placed after every element whose signal is >= its own.
\* Variant of InsertDesc that places an element before the elements of equal
\* signal (a sort that is not stable).
RECURSIVE InsertDescBeforeEqual(_, _)
InsertDescBeforeEqual(sorted, n) ==
    IF sorted = <<>> THEN <<n>>
    ELSE IF Head(sorted).signal > n.signal
         THEN <<Head(sorted)>> \o InsertDescBeforeEqual(Tail(sorted), n)
         ELSE <<n>> \o sorted

RECURSIVE InsertDesc(_, _)
InsertDesc(sorted, n) ==
    IF sorted = <<>> THEN <<n>>
    ELSE IF Head(sorted).signal >= n.signal
         THEN <<Head(sorted)>> \o InsertDesc(Tail(sorted), n)
         ELSE <<n>> \o sorted

RECURSIVE SortBySignalDesc(_)
SortBySignalDesc(nets) ==
    IF nets = <<>> THEN <<>>
    ELSE InsertDesc(SortBySignalDesc(SubSeq(nets, 1, Len(nets) - 1)), nets[Len(nets)])

\* networks[:limit] when limit is given and positive, cli.py:560-561
ApplyLimit(nets, lim) ==
    IF lim.given /\ lim.n > 0
    THEN SubSeq(nets, 1, IF lim.n < Len(nets) THEN lim.n ELSE Len(nets))
    ELSE nets

\* The candidate list of a campaign, cli.py:553-561
Candidates(scan, p, lim) == ApplyLimit(SortBySignalDesc(FilterByPrefix(scan, p)), lim)

\* --limit: absent (None) or an integer, cli.py:458-464
Limits == { [given |-> FALSE, n |-> 0] } \cup { [given |-> TRUE, n |-> k] : k \in 0..MaxLimit }

\* ------------------------------------------------------------------ state
VARIABLES
    \* -- the speedtest command (cli.py:473-875)
    pc,             \* the statement the command is about to run
    exit,           \* "running", or how the command stopped
    auto_connect,   \* --auto-connect
    tool,           \* cfg.speedtest_tool, cli.py:489
    iperf3_server,  \* cfg.iperf3_server ("" when not configured)
    prefix_arg,     \* --prefix, cli.py:450-457
    cfg_prefix,     \* cfg.prefix
    password,       \* cfg.golden_config_password is set
    quiet,          \* --quiet
    auto_save,      \* cfg.auto_save
    limit,          \* --limit
    nmcli,          \* whether the nmcli binary can be executed on this host
    networks,       \* the candidate list, cli.py:549-561
    original_ssid,  \* cli.py:591
    original_bssid, \* cli.py:592
    i,              \* position of the network being tested (enumerate from 1)
    results,        \* the outcome list, cli.py:595
    calls,          \* every call the command made to a collaborator, in order
    \* -- one run of a tool dispatch: _run_speedtest_for_tool (cli.py:32-68)
    \*    or the non-quiet single-network block (cli.py:778-807)
    t_site,         \* which of the two runs
    t_pc,           \* "idle", "call", "ports", "done"
    t_tool,         \* the tool argument
    t_server,       \* cfg.iperf3_server ("" when not configured)
    t_range,        \* cfg.iperf3_port_range, <<start, end>>
    t_next,         \* position in `ports` of the port the loop tries next
    last_error,     \* cli.py:54
    t_ret,          \* how the call ended: a result, None, or a raised error
    tried,          \* what each runner call did, in call order
    \* -- one call of wait_for_connection (speedtest.py:45-67)
    w_pc,           \* "idle", "loop", "blocked", "done"
    w_timeout,      \* the timeout argument, in seconds
    w_elapsed,      \* time.time() - start_time, in half seconds
    w_state,        \* `state`, speedtest.py:62, of the latest poll
    w_ret,          \* the value returned
    \* -- one construction of the candidate list (cli.py:553-561)
    c_pc,           \* "idle", "call", "done"
    c_scan,         \* what scan_wifi returned, in scan order
    c_prefix,       \* prefix
    c_limit,        \* limit
    c_networks,     \* `networks` after line 561
    \* -- one call of scan_wifi (scanner.py:147-210)
    s_pc,           \* "idle", "loop", "done"
    flush_cache,    \* the flush_cache argument
    retries,        \* the retries argument
    attempt,        \* scanner.py:162
    s_last_error,   \* scanner.py:163
    s_ret,          \* how the call ended: the parsed scan, or a raised error
    s_log,          \* what each attempt did, in order
    s_slept,        \* seconds spent in time.sleep so far
    \* -- one call of parse_iw_scan_output (scanner.py:47-144)
    p_pc,           \* "idle", "lines", "done"
    p_pass,         \* 1 in the first call, 2 in a second call on the same text
    p_input,        \* in the second call, the text: the lines the first call read
    p_first,        \* in the second call, what the first call returned
    now,            \* the latest reading of the clock, datetime.now()
    lines,          \* the lines of `output` read so far
    current_bss,    \* scanner.py:57
    current_data,   \* scanner.py:58, a dict: a function on the keys that are set
    p_results,      \* `results`, scanner.py:56
    \* -- one call of get_band (scanner.py:29-44)
    g_pc,           \* "idle", "call", "done"
    freq_mhz,       \* the argument
    band,           \* the value returned
    \* -- one call of parse_ookla_json or parse_iperf3_json (speedtest.py:241-334)
    j_pc,           \* "idle", "call", "done"
    j_parser,       \* "ookla" or "iperf3"
    payload,        \* what json_output holds
    j_ret,          \* how the call ended: a SpeedtestResult, None, or a raised error
    \* -- the store (db.py)
    db_pc,          \* "idle" or "open"
    scan_results,   \* the rows of table scan_results, in insertion order
    speedtest_results, \* the rows of table speedtest_results, in insertion order
    db_clock,       \* the latest CURRENT_TIMESTAMP
    db_writes       \* every record handed to the store, in order

cmdVars == <<pc, exit, auto_connect, tool, iperf3_server, prefix_arg, cfg_prefix,
             password, quiet, auto_save,
             limit, nmcli, networks, original_ssid, original_bssid, i, results, calls>>

toolVars == <<t_site, t_pc, t_tool, t_server, t_range, t_next, last_error, t_ret, tried>>

waitVars == <<w_pc, w_timeout, w_elapsed, w_state, w_ret>>

candVars == <<c_pc, c_scan, c_prefix, c_limit, c_networks>>

scanVars == <<s_pc, flush_cache, retries, attempt, s_last_error, s_ret, s_log, s_slept>>

parseVars == <<p_pc, p_pass, p_input, p_first, now, lines, current_bss, current_data,
               p_results>>

bandVars == <<g_pc, freq_mhz, band>>

\* The variables of the pure functions checked on their own.
jsonVars == <<j_pc, j_parser, payload, j_ret>>

dbVars == <<db_pc, scan_results, speedtest_results, db_clock, db_writes>>

fnVars == <<candVars, scanVars, parseVars, bandVars, jsonVars, dbVars>>

vars == <<cmdVars, toolVars, waitVars, fnVars>>

Tools == { "speedtest", "iperf3" }

\* How the command can stop: a normal return, click's Exit(1), or an
\* exception nothing catches (the process ends with a traceback).
Stopped == exit # "running"

Stop(how) == /\ pc' = "stopped"
             /\ exit' = how

CmdInit ==
    /\ pc = "check_tool"
    /\ exit = "running"
    /\ auto_connect \in BOOLEAN
    /\ tool \in Tools
    /\ iperf3_server \in { "", "10.0.0.1" }
    /\ prefix_arg \in Prefixes
    /\ cfg_prefix \in Prefixes
    /\ password \in BOOLEAN
    /\ quiet \in BOOLEAN
    /\ auto_save \in BOOLEAN
    /\ limit \in Limits
    /\ nmcli \in { "present", "missing" }
    /\ networks = <<>>
    /\ original_ssid = None
    /\ original_bssid = NoBssid
    /\ i = 0
    /\ results = <<>>
    /\ calls = <<>>

\* The command, not running (the other specifications hold it still).
CmdIdle ==
    /\ pc = "idle"
    /\ exit = "running"
    /\ auto_connect = FALSE
    /\ tool = "speedtest"
    /\ iperf3_server = ""
    /\ prefix_arg = None
    /\ cfg_prefix = None
    /\ password = FALSE
    /\ quiet = FALSE
    /\ auto_save = FALSE
    /\ limit = [given |-> FALSE, n |-> 0]
    /\ nmcli = "present"
    /\ networks = <<>>
    /\ original_ssid = None
    /\ original_bssid = NoBssid
    /\ i = 0
    /\ results = <<>>
    /\ calls = <<>>

\* prefix = prefix_arg if prefix_arg else cfg.prefix, cli.py:518
Prefix == IF Truthy(prefix_arg) THEN prefix_arg ELSE cfg_prefix

\* Variant of CheckTool that takes the campaign path whatever --auto-connect.
CheckToolThenCampaign ==
    /\ pc = "check_tool"
    /\ pc' = "check_prefix"
    /\ UNCHANGED <<toolVars, waitVars, fnVars>>
    /\ UNCHANGED <<exit, auto_connect, tool, iperf3_server, prefix_arg, cfg_prefix,
                   password, quiet, auto_save, limit, nmcli, networks, original_ssid,
                   original_bssid, i, results, calls>>

\* cli.py:496-513: verify_iperf3_available / verify_speedtest_available.
\* cfg.speedtest_tool only ever yields "speedtest" or "iperf3"
\* (config.py:273-282), so the "unknown tool" branch is not reachable.
\* `if auto_connect:` (cli.py:516) then chooses between the campaign and the
\* single-network block.
CheckTool ==
    /\ pc = "check_tool"
    /\ \E available \in BOOLEAN :
         IF available
         THEN /\ pc' = IF auto_connect THEN "check_prefix" ELSE "single"
              /\ UNCHANGED exit
         ELSE Stop("Exit(1)")
    /\ UNCHANGED <<toolVars, waitVars, fnVars>>
    /\ UNCHANGED <<auto_connect, tool, iperf3_server, prefix_arg, cfg_prefix,
                   password, quiet, auto_save, limit,
                   nmcli, networks, original_ssid, original_bssid, i, results, calls>>

\* cli.py:518-527
CheckPrefix ==
    /\ pc = "check_prefix"
    /\ IF Truthy(Prefix)
       THEN pc' = "check_password" /\ UNCHANGED exit
       ELSE Stop("Exit(1)")
    /\ UNCHANGED <<toolVars, waitVars, fnVars>>
    /\ UNCHANGED <<auto_connect, tool, iperf3_server, prefix_arg, cfg_prefix,
                   password, quiet, auto_save, limit,
                   nmcli, networks, original_ssid, original_bssid, i, results, calls>>

\* Variant of CheckPassword that goes on to the scan without a credential.
CheckPasswordSkipped ==
    /\ pc = "check_password"
    /\ pc' = "scan"
    /\ UNCHANGED <<toolVars, waitVars, fnVars>>
    /\ UNCHANGED <<exit, auto_connect, tool, iperf3_server, prefix_arg, cfg_prefix,
                   password, quiet, auto_save, limit, nmcli, networks, original_ssid,
                   original_bssid, i, results, calls>>

\* cli.py:529-536
CheckPassword ==
    /\ pc = "check_password"
    /\ IF password
       THEN pc' = "scan" /\ UNCHANGED exit
       ELSE Stop("Exit(1)")
    /\ UNCHANGED <<toolVars, waitVars, fnVars>>
    /\ UNCHANGED <<auto_connect, tool, iperf3_server, prefix_arg, cfg_prefix,
                   password, quiet, auto_save, limit,
                   nmcli, networks, original_ssid, original_bssid, i, results, calls>>

\* Variant of NoNetworks in which an empty candidate list does not end the
\* campaign.
NoNetworksGoesOn(nets) == FALSE

\* `if not networks:` followed by `return`, cli.py:563-568.
NoNetworks(nets) == nets = <<>>

\* cli.py:543-588.  scan_wifi either raises (the except clause at 585 turns
\* that into Exit(1)) or returns the parsed scan; the list is filtered, sorted
\* and capped; an empty list returns at once; with auto_save the candidates
\* are written to the store, a failure of which is only reported (575-583).
ScanNetworks ==
    /\ pc = "scan"
    /\ \/ /\ Stop("Exit(1)")
          /\ calls' = Append(calls, "scan_wifi")
          /\ UNCHANGED networks
       \/ \E scan \in Scans :
            LET cands == Candidates(scan, Prefix, limit) IN
            /\ networks' = cands
            /\ IF NoNetworks(cands)
               THEN /\ Stop("return")
                    /\ calls' = Append(calls, "scan_wifi")
               ELSE /\ pc' = "remember_original"
                    /\ UNCHANGED exit
                    /\ calls' = IF auto_save
                                THEN calls \o <<"scan_wifi", "insert_scan_results">>
                                ELSE Append(calls, "scan_wifi")
    /\ UNCHANGED <<toolVars, waitVars, fnVars>>
    /\ UNCHANGED <<auto_connect, tool, iperf3_server, prefix_arg, cfg_prefix,
                   password, quiet, auto_save, limit,
                   nmcli, original_ssid, original_bssid, i, results>>

\* What `iw dev <interface> link` and the nmcli fallback can report about the
\* pre-campaign link: each of ssid and bssid independently present or absent
\* (speedtest.py:147-193); the link's radio is numbered past the scanned ones.
LinkSsids == { None, <<"h">> }
LinkBssids == { NoBssid, MaxScan + 1 }

\* speedtest.disconnect_network, speedtest.py:126-144: runs
\* `nmcli dev disconnect <interface>` with a 10 s timeout; a timeout and a
\* non-zero exit give False, which no caller in the campaign reads.
disconnect_network(log) == Append(log, "disconnect_network")

\* Variant of ResetInterface in which the reset before the connect is left out.
ResetInterfaceSkipped(log) == log

\* cli.py:605-607: "Reset interface before connecting".
ResetInterface(log) == disconnect_network(log)

\* Python binds a call's positional arguments to the callee's parameters
\* before the body runs and raises TypeError when there are too many.
Binds(args, params) == Len(args) = Len(params)

\* def connect_to_network(ssid: str, password: str), speedtest.py:98
connect_to_network_params == <<"ssid", "password">>
\* connect_to_network(ssid, bssid, password), cli.py:614 and cli.py:621
connect_to_network_args == <<"ssid", "bssid", "password">>

\* cli.py:590-592.  get_current_ssid (speedtest.py:196-222) takes the ssid of
\* `iw link`, and when there is none asks nmcli, catching a timeout but not
\* the FileNotFoundError of a missing nmcli binary; get_current_bssid
\* (speedtest.py:225-238) takes the bssid of a second `iw link`.
RememberOriginal ==
    /\ pc = "remember_original"
    /\ \E iw_ssid \in LinkSsids, iw_bssid \in LinkBssids, nm_ssid \in LinkSsids :
         IF ~Truthy(iw_ssid) /\ nmcli = "missing"
         THEN /\ Stop("FileNotFoundError")
              /\ calls' = Append(calls, "get_current_ssid")
              /\ UNCHANGED <<original_ssid, original_bssid>>
         ELSE /\ original_ssid' = IF Truthy(iw_ssid) THEN iw_ssid ELSE nm_ssid
              /\ original_bssid' = iw_bssid
              /\ calls' = calls \o <<"get_current_ssid", "get_current_bssid">>
              /\ pc' = "for_network"
              /\ UNCHANGED exit
    /\ UNCHANGED <<toolVars, waitVars, fnVars>>
    /\ UNCHANGED <<auto_connect, tool, iperf3_server, prefix_arg, cfg_prefix,
                   password, quiet, auto_save, limit,
                   nmcli, networks, i, results>>

\* cli.py:594-607: results = [] and the head of `for i, network in
\* enumerate(networks, 1)`, then the reset of the interface.  subprocess.run
\* raises FileNotFoundError when nmcli cannot be executed, which
\* disconnect_network does not catch (speedtest.py:143).
ForNetwork ==
    /\ pc = "for_network"
    /\ i < Len(networks)
    /\ i' = i + 1
    /\ results' = IF i = 0 THEN <<>> ELSE results
    /\ IF nmcli = "missing"
       THEN /\ Stop("FileNotFoundError")
            /\ calls' = calls
       ELSE /\ calls' = ResetInterface(calls)
            /\ pc' = "connect"
            /\ UNCHANGED exit
    /\ UNCHANGED <<toolVars, waitVars, fnVars>>
    /\ UNCHANGED <<auto_connect, tool, iperf3_server, prefix_arg, cfg_prefix,
                   password, quiet, auto_save, limit,
                   nmcli, networks, original_ssid, original_bssid>>

\* cli.py:609-625: connected, error_msg = connect_to_network(ssid, bssid,
\* password).  The call passes three positional arguments to a function of
\* two parameters, so it raises TypeError before nmcli is run.  The statement
\* is inside no try block and the loop has no handler: the exception leaves
\* speedtest(), no outcome is appended, and nothing after line 625 runs.
ConnectToNetwork ==
    /\ pc = "connect"
    /\ ~Binds(connect_to_network_args, connect_to_network_params)
    /\ calls' = Append(calls, "connect_to_network")
    /\ Stop("TypeError")
    /\ UNCHANGED <<toolVars, waitVars, fnVars>>
    /\ UNCHANGED <<auto_connect, tool, iperf3_server, prefix_arg, cfg_prefix,
                   password, quiet, auto_save, limit,
                   nmcli, networks, original_ssid, original_bssid, i, results>>

\* def reconnect_saved_network(ssid: str), speedtest.py:70
reconnect_saved_network_params == <<"ssid">>
\* reconnect_saved_network(original_bssid, original_ssid), cli.py:757
reconnect_saved_network_args == <<"original_bssid", "original_ssid">>

\* Step 4, cli.py:750-758: `if original_bssid:` is the only condition under
\* which the restoration call is made; original_ssid is not consulted.
RestorationAttempted(bssid, ssid) == bssid # NoBssid

\* How step 4 ends for a recorded link: no call at all, or the call of line
\* 757, whose two positional arguments a one-parameter function rejects.
Restoration(bssid, ssid) ==
    IF ~RestorationAttempted(bssid, ssid) THEN "skipped"
    ELSE IF Binds(reconnect_saved_network_args, reconnect_saved_network_params)
         THEN "reconnect_saved_network"
         ELSE "TypeError"

\* cli.py:683-685, what a result is stamped with when the runner succeeded in
\* a campaign: `result.ssid = ssid`, the candidate's ssid from the scan, and
\* `result.bssid = get_current_bssid(interface) or network.bssid`.  The ssid
\* of the interface is not queried.
StampSuccess(network, live_ssid, live_bssid) ==
    [ssid |-> network.ssid,
     bssid |-> IF live_bssid # NoBssid THEN live_bssid ELSE network.bssid]

\* ------------------------------------------- _run_speedtest_for_tool
\* First port of the default range "5201-5201", config.py:298.
PortBase == 5201
\* Number of distinct port numbers a configured range is drawn from.
MaxPortSpan == 3

PortNumbers == PortBase..(PortBase + MaxPortSpan - 1)

\* Config.get_iperf3_ports, config.py:305-312: list(range(start, end + 1)),
\* ascending, empty when start > end.
RECURSIVE get_iperf3_ports(_, _)
get_iperf3_ports(start, end) ==
    IF start > end THEN <<>> ELSE <<start>> \o get_iperf3_ports(start + 1, end)

\* What one run of the external tool can do: exit 0 with output that parses
\* to a result ("valid"), that is not JSON ("malformed"), or that is JSON but
\* not an object, such as a list ("nonobject"); run past the timeout; exit
\* non-zero; be missing; or fail to start for another reason ("oserror", for
\* example PermissionError).
Behaviours == { "valid", "malformed", "nonobject", "timeout", "nonzero", "notfound", "oserror" }

\* The three ways a call ends, in one record shape.
Result(port) == [tag |-> "result", port |-> port, type |-> "", why |-> ""]
NoResult == [tag |-> "none", port |-> 0, type |-> "", why |-> ""]
Raise(type, port, why) == [tag |-> "raise", port |-> port, type |-> type, why |-> why]

\* run_iperf3_speedtest (speedtest.py:372-419) and run_ookla_speedtest
\* (speedtest.py:337-369) have the same shape: subprocess.run with check=True
\* and a timeout, the output handed to the parser.  TimeoutExpired,
\* CalledProcessError and FileNotFoundError become RuntimeError; any other
\* OSError passes through.  The parsers (speedtest.py:241-334) return None on
\* JSONDecodeError, TypeError and KeyError; `data.get` on a value that is not
\* an object raises AttributeError, which neither the parser nor the runner
\* catches.
RunTool(port, b) ==
    CASE b = "valid" -> Result(port)
      [] b = "malformed" -> NoResult
      [] b = "nonobject" -> Raise("AttributeError", port, b)
      [] b \in { "timeout", "nonzero", "notfound" } -> Raise("RuntimeError", port, b)
      [] b = "oserror" -> Raise("OSError", port, b)

run_iperf3_speedtest(port, b) == RunTool(port, b)
run_ookla_speedtest(b) == RunTool(0, b)

\* RuntimeError("IPERF3_SERVER not configured"), cli.py:51
ServerNotConfigured == Raise("RuntimeError", 0, "IPERF3_SERVER not configured")
\* RuntimeError("All iperf3 ports failed"), cli.py:66
AllPortsFailed == Raise("RuntimeError", 0, "All iperf3 ports failed")
NoError == NoResult

\* Variant of PortStep that does not return on a result but goes on to the
\* next port.
PortStepKeepsGoing(lastErr, out) ==
    CASE out.tag = "raise" /\ out.type = "RuntimeError" ->
            [go |-> "continue", ret |-> NoResult, last_error |-> out]
      [] out.tag = "raise" -> [go |-> "raise", ret |-> out, last_error |-> lastErr]
      [] OTHER -> [go |-> "continue", ret |-> NoResult, last_error |-> lastErr]

\* Variant of PortStep that remembers the first RuntimeError, not the last.
PortStepKeepsFirstError(lastErr, out) ==
    CASE out.tag = "result" -> [go |-> "return", ret |-> out, last_error |-> lastErr]
      [] out.tag = "none" -> [go |-> "continue", ret |-> NoResult, last_error |-> lastErr]
      [] out.tag = "raise" /\ out.type = "RuntimeError" ->
            [go |-> "continue", ret |-> NoResult,
             last_error |-> IF lastErr = NoResult THEN out ELSE lastErr]
      [] OTHER -> [go |-> "raise", ret |-> out, last_error |-> lastErr]

\* The body of `for port in ports`, cli.py:56-64, for a runner call that
\* ended as `out`: a truthy result returns it; None falls through to the next
\* port; a RuntimeError is remembered and the loop continues; any other
\* exception leaves the function.
PortStep(lastErr, out) ==
    CASE out.tag = "result" -> [go |-> "return", ret |-> out, last_error |-> lastErr]
      [] out.tag = "none" -> [go |-> "continue", ret |-> NoResult, last_error |-> lastErr]
      [] out.tag = "raise" /\ out.type = "RuntimeError" ->
            [go |-> "continue", ret |-> NoResult, last_error |-> out]
      [] OTHER -> [go |-> "raise", ret |-> out, last_error |-> lastErr]

\* raise last_error or RuntimeError("All iperf3 ports failed"), cli.py:66
Exhausted(lastErr) == IF lastErr # NoError THEN lastErr ELSE AllPortsFailed

\* raise click.exceptions.Exit(1), cli.py:785
Exit1 == Raise("Exit", 0, "1")

\* The body of the single-network loop, cli.py:792-802: a truthy result
\* breaks out of the loop with it, None goes on, a RuntimeError is remembered
\* and the loop continues, any other exception leaves the block.
SinglePortStep(lastErr, out) ==
    CASE out.tag = "result" -> [go |-> "break", ret |-> out, last_error |-> lastErr]
      [] out.tag = "none" -> [go |-> "continue", ret |-> NoResult, last_error |-> lastErr]
      [] out.tag = "raise" /\ out.type = "RuntimeError" ->
            [go |-> "continue", ret |-> NoResult, last_error |-> out]
      [] OTHER -> [go |-> "raise", ret |-> out, last_error |-> lastErr]

\* if not result: raise last_error or RuntimeError(...), cli.py:804-805; the
\* loop ends without a break only with result None.
SingleExhausted(lastErr) == IF lastErr # NoError THEN lastErr ELSE AllPortsFailed

\* The campaign's classification of a test, cli.py:673-744: a truthy result
\* is "success", None is "test_failed", any exception is "error".
OutcomeStatus(ret) ==
    CASE ret.tag = "result" -> "success"
      [] ret.tag = "none" -> "test_failed"
      [] ret.tag = "raise" -> "error"

\* The two dispatch sites: the function the campaign calls, and the block of
\* speedtest() that single-network mode runs when --quiet is not given.
Sites == { "_run_speedtest_for_tool", "speedtest" }

ToolIdle ==
    /\ t_site = "_run_speedtest_for_tool"
    /\ t_pc = "idle"
    /\ t_tool = "speedtest"
    /\ t_server = ""
    /\ t_range = <<PortBase, PortBase>>
    /\ t_next = 1
    /\ last_error = NoError
    /\ t_ret = NoResult
    /\ tried = <<>>

ToolInit ==
    /\ t_site \in Sites
    /\ t_pc = "call"
    /\ t_tool \in Tools
    /\ t_server \in { "", "10.0.0.1" }
    /\ t_range \in PortNumbers \X PortNumbers
    /\ t_next = 1
    /\ last_error = NoError
    /\ t_ret = NoResult
    /\ tried = <<>>

Ports == get_iperf3_ports(t_range[1], t_range[2])

\* cli.py:48-54 for iperf3 (the server check, ports, last_error = None) and
\* cli.py:67-68 for the other tool (one runner call, its result returned and
\* its exception passed on); cli.py:778-789 and 806-807 in the single-network
\* block, where a missing server is Exit(1).
ToolCall ==
    /\ t_pc = "call"
    /\ IF t_tool = "iperf3"
       THEN IF t_server = ""
            THEN /\ t_ret' = IF t_site = "speedtest" THEN Exit1 ELSE ServerNotConfigured
                 /\ t_pc' = "done"
                 /\ UNCHANGED <<last_error, tried>>
            ELSE /\ t_pc' = "ports"
                 /\ last_error' = NoError
                 /\ UNCHANGED <<t_ret, tried>>
       ELSE \E b \in Behaviours :
            /\ t_ret' = run_ookla_speedtest(b)
            /\ tried' = Append(tried, [port |-> 0, out |-> run_ookla_speedtest(b)])
            /\ t_pc' = "done"
            /\ UNCHANGED last_error
    /\ UNCHANGED <<t_site, t_tool, t_server, t_range, t_next>>
    /\ UNCHANGED <<cmdVars, waitVars, fnVars>>

\* One iteration of the port loop, cli.py:56-64 or cli.py:792-802.
ToolTryPort ==
    /\ t_pc = "ports"
    /\ t_next <= Len(Ports)
    /\ \E b \in Behaviours :
         LET out == run_iperf3_speedtest(Ports[t_next], b)
             step == IF t_site = "speedtest"
                     THEN SinglePortStep(last_error, out)
                     ELSE PortStep(last_error, out)
         IN /\ tried' = Append(tried, [port |-> Ports[t_next], out |-> out])
            /\ last_error' = step.last_error
            /\ t_next' = t_next + 1
            /\ IF step.go = "continue"
               THEN UNCHANGED <<t_pc, t_ret>>
               ELSE t_pc' = "done" /\ t_ret' = step.ret
    /\ UNCHANGED <<t_site, t_tool, t_server, t_range>>
    /\ UNCHANGED <<cmdVars, waitVars, fnVars>>

\* The loop ran out of ports, cli.py:66 or cli.py:804-805.
ToolExhausted ==
    /\ t_pc = "ports"
    /\ t_next > Len(Ports)
    /\ t_ret' = IF t_site = "speedtest"
                THEN SingleExhausted(last_error)
                ELSE Exhausted(last_error)
    /\ t_pc' = "done"
    /\ UNCHANGED <<t_site, t_tool, t_server, t_range, t_next, last_error, tried>>
    /\ UNCHANGED <<cmdVars, waitVars, fnVars>>

NextTool == ToolCall \/ ToolTryPort \/ ToolExhausted

\* ------------------------------------------------ wait_for_connection
\* def wait_for_connection(interface, timeout: int = 20), speedtest.py:45
DefaultWaitTimeout == 20
\* wait_for_connection(interface, timeout=25), cli.py:617 and cli.py:623
CampaignWaitTimeout == 25
\* time.sleep(0.5), speedtest.py:66: two polls a second at most.
TicksPerSecond == 2
\* Longest one nmcli query is taken to run, in half seconds.
MaxQueryTicks == 1

\* What `nmcli -t -f GENERAL.STATE dev show <interface>` prints after
\* GENERAL.STATE:, stripped and lower-cased (speedtest.py:62); empty when
\* nmcli fails.
StateConnected == <<"1", "0", "0", " ", "(", "c", "o", "n", "n", "e", "c", "t", "e", "d", ")">>
StateDisconnected == <<"3", "0", " ", "(", "d", "i", "s", "c", "o", "n", "n", "e", "c", "t", "e", "d", ")">>
StateUnavailable == <<"2", "0", " ", "(", "u", "n", "a", "v", "a", "i", "l", "a", "b", "l", "e", ")">>
StateConnecting == <<"5", "0", " ", "(", "c", "o", "n", "n", "e", "c", "t", "i", "n", "g", " ", "(", "c", "o", "n", "f", "i", "g", "u", "r", "i", "n", "g", ")", ")">>
StateDeactivating == <<"1", "1", "0", " ", "(", "d", "e", "a", "c", "t", "i", "v", "a", "t", "i", "n", "g", ")">>
StateFailed == <<"1", "2", "0", " ", "(", "c", "o", "n", "n", "e", "c", "t", "i", "o", "n", " ", "f", "a", "i", "l", "e", "d", ")">>
DeviceStates == { StateConnected, StateDisconnected, StateUnavailable, StateConnecting,
                  StateDeactivating, StateFailed, <<>> }

\* Python's `sub in s` on strings.
Contains(s, sub) ==
    \E k \in 1..(Len(s) - Len(sub) + 1) : SubSeq(s, k, k + Len(sub) - 1) = sub

\* "connected" in state or "activated" in state, speedtest.py:64
LooksConnected(state) ==
    \/ Contains(state, <<"c", "o", "n", "n", "e", "c", "t", "e", "d">>)
    \/ Contains(state, <<"a", "c", "t", "i", "v", "a", "t", "e", "d">>)

\* `connected` as the campaign tests it at cli.py:627: connect_to_network
\* reported success and wait_for_connection returned True (cli.py:614-625).
Connected(connect_ok, wait_ret) == connect_ok /\ wait_ret

WaitIdle ==
    /\ w_pc = "idle"
    /\ w_timeout = DefaultWaitTimeout
    /\ w_elapsed = 0
    /\ w_state = <<>>
    /\ w_ret = FALSE

WaitInit ==
    /\ w_pc = "loop"
    /\ w_timeout \in { DefaultWaitTimeout, CampaignWaitTimeout }
    /\ w_elapsed = 0
    /\ w_state = <<>>
    /\ w_ret = FALSE

\* One iteration of the loop, speedtest.py:56-66, in which nmcli returns: the
\* query, the test of its output, and the sleep when the test fails.
WaitPoll ==
    /\ w_pc = "loop"
    /\ w_elapsed < w_timeout * TicksPerSecond
    /\ \E st \in DeviceStates, took \in 0..MaxQueryTicks :
         /\ w_state' = st
         /\ IF LooksConnected(st)
            THEN /\ w_ret' = TRUE
                 /\ w_pc' = "done"
                 /\ w_elapsed' = w_elapsed + took
            ELSE /\ w_elapsed' = w_elapsed + took + 1
                 /\ UNCHANGED <<w_pc, w_ret>>
    /\ UNCHANGED w_timeout
    /\ UNCHANGED <<cmdVars, toolVars, fnVars>>

\* The window has elapsed, speedtest.py:56 and 67.
WaitTimedOut ==
    /\ w_pc = "loop"
    /\ w_elapsed >= w_timeout * TicksPerSecond
    /\ w_ret' = FALSE
    /\ w_pc' = "done"
    /\ UNCHANGED <<w_timeout, w_elapsed, w_state>>
    /\ UNCHANGED <<cmdVars, toolVars, fnVars>>

\* An iteration in which nmcli does not return: subprocess.run is called
\* without a timeout (speedtest.py:57-61), so the call waits for the child
\* for good and the loop condition of line 56 is never tested again.
WaitHang ==
    /\ w_pc = "loop"
    /\ w_elapsed < w_timeout * TicksPerSecond
    /\ w_pc' = "blocked"
    /\ UNCHANGED <<w_timeout, w_elapsed, w_state, w_ret>>
    /\ UNCHANGED <<cmdVars, toolVars, fnVars>>

NextWait == WaitPoll \/ WaitTimedOut \/ WaitHang


\* ------------------------------------------------ single-network mode
\* Variant of QuietPortStep that leaves the loop on an empty result.
QuietPortStepStopsOnNone(lastErr, out) ==
    CASE out.tag \in { "result", "none" } ->
            [go |-> "break", ret |-> out, last_error |-> lastErr]
      [] out.tag = "raise" /\ out.type = "RuntimeError" ->
            [go |-> "continue", ret |-> NoResult, last_error |-> lastErr]
      [] OTHER -> [go |-> "raise", ret |-> out, last_error |-> lastErr]

\* The body of the quiet single-network loop, cli.py:819-830: as
\* SinglePortStep, except that a RuntimeError is not remembered.
QuietPortStep(lastErr, out) ==
    CASE out.tag = "result" -> [go |-> "break", ret |-> out, last_error |-> lastErr]
      [] out.tag = "none" -> [go |-> "continue", ret |-> NoResult, last_error |-> lastErr]
      [] out.tag = "raise" /\ out.type = "RuntimeError" ->
            [go |-> "continue", ret |-> NoResult, last_error |-> lastErr]
      [] OTHER -> [go |-> "raise", ret |-> out, last_error |-> lastErr]

\* if not result: raise click.exceptions.Exit(1), cli.py:832-833
QuietExhausted(lastErr) == Exit1

\* What the runner does on each of n calls, by call number.
RunnerScripts(n) == [1..n -> Behaviours]

\* The port loop of the single-network block from position k on (cli.py:792-805
\* when q is false, cli.py:819-833 when --quiet): how it ends and how many
\* runner calls were made.
RECURSIVE SingleLoop(_, _, _, _, _)
SingleLoop(q, ports, bs, k, lastErr) ==
    IF k > Len(ports)
    THEN [ret |-> IF q THEN QuietExhausted(lastErr) ELSE SingleExhausted(lastErr),
          runs |-> k - 1]
    ELSE LET out == run_iperf3_speedtest(ports[k], bs[k])
             step == IF q THEN QuietPortStep(lastErr, out) ELSE SinglePortStep(lastErr, out)
         IN IF step.go = "continue"
            THEN SingleLoop(q, ports, bs, k + 1, step.last_error)
            ELSE [ret |-> step.ret, runs |-> k]

\* n entries `name` appended to a call log.
RECURSIVE Logged(_, _, _)
Logged(log, name, n) == IF n = 0 THEN log ELSE Logged(Append(log, name), name, n - 1)

\* cli.py:835-875, for a dispatch that ended as d.ret after d.runs runner
\* calls.  A falsy result is Exit(1) (835-838); the live ssid and bssid are
\* read and stamped on the result (840-845); the result is shown and, with
\* auto_save, stored, only when --quiet is not given (847-870).  `except
\* RuntimeError` (872-875) turns a RuntimeError, and click's Exit, which is
\* one, into Exit(1); any other exception leaves the command.
SingleFinish(d) ==
    LET ran == Logged(calls,
                      IF tool = "iperf3" THEN "run_iperf3_speedtest"
                                         ELSE "run_ookla_speedtest",
                      d.runs)
    IN CASE d.ret.tag = "none" ->
                /\ Stop("Exit(1)")
                /\ calls' = ran
         [] d.ret.tag = "raise" ->
                /\ Stop(IF d.ret.type \in { "RuntimeError", "Exit" }
                        THEN "Exit(1)" ELSE d.ret.type)
                /\ calls' = ran
         [] d.ret.tag = "result" ->
                \E iw_ssid \in LinkSsids :
                    IF ~Truthy(iw_ssid) /\ nmcli = "missing"
                    THEN /\ Stop("FileNotFoundError")
                         /\ calls' = Append(ran, "get_current_ssid")
                    ELSE /\ Stop("return")
                         /\ calls' = ran \o <<"get_current_ssid", "get_current_bssid">>
                                        \o IF ~quiet /\ auto_save
                                           THEN <<"insert_speedtest_result">>
                                           ELSE <<>>

\* cli.py:771-875, the whole single-network block: the tool is run on the
\* current link (778-807, or 810-833 with --quiet), then SingleFinish.
SingleNetwork ==
    /\ pc = "single"
    /\ IF tool = "iperf3"
       THEN IF iperf3_server = ""
            THEN SingleFinish([ret |-> Exit1, runs |-> 0])
            ELSE \E range \in PortNumbers \X PortNumbers :
                   LET ports == get_iperf3_ports(range[1], range[2]) IN
                   \E bs \in RunnerScripts(Len(ports)) :
                      SingleFinish(SingleLoop(quiet, ports, bs, 1, NoError))
       ELSE \E b \in Behaviours :
              SingleFinish([ret |-> run_ookla_speedtest(b), runs |-> 1])
    /\ UNCHANGED <<toolVars, waitVars, fnVars>>
    /\ UNCHANGED <<auto_connect, tool, iperf3_server, prefix_arg, cfg_prefix,
                   password, quiet, auto_save, limit, nmcli, networks, original_ssid,
                   original_bssid, i, results>>

\* ------------------------------------------------ the candidate list
\* Prefixes a campaign can filter by (cli.py:520 has refused an empty one).
CandPrefixes == { <<"l">>, <<"l", "a">> }

CandIdle ==
    /\ c_pc = "idle"
    /\ c_scan = <<>>
    /\ c_prefix = None
    /\ c_limit = [given |-> FALSE, n |-> 0]
    /\ c_networks = <<>>

CandInit ==
    /\ c_pc = "call"
    /\ c_scan \in Scans
    /\ c_prefix \in CandPrefixes
    /\ c_limit \in Limits
    /\ c_networks = <<>>

\* cli.py:553-561: filter, sort, cap.
BuildCandidates ==
    /\ c_pc = "call"
    /\ c_networks' = Candidates(c_scan, c_prefix, c_limit)
    /\ c_pc' = "done"
    /\ UNCHANGED <<c_scan, c_prefix, c_limit>>
    /\ UNCHANGED <<cmdVars, toolVars, waitVars, scanVars, parseVars, bandVars,
                   jsonVars, dbVars>>

NextCand == BuildCandidates

\* ------------------------------------------------ scan_wifi
\* retries: int = 2, scanner.py:148; no caller passes another value.
DefaultRetries == 2
\* time.sleep(1.0), scanner.py:205, in seconds.
RetryPause == 1

\* What one pass of the loop body can do (scanner.py:166-202).  The flush
\* (check=False) can only time out; the scan exits 0 and is parsed ("ok"),
\* times out, exits non-zero with or without "No buffer space available" in
\* stderr; iw can be missing, or fail to start for another reason.
RetriedKinds == { "timeout", "flush_timeout", "buffer", "nonzero" }
AttemptKinds == RetriedKinds \cup { "ok", "notfound", "oserror" }

\* The RuntimeError recorded for a failed attempt, scanner.py:190-200; `at`
\* is the number of the attempt that made it.
ScanError(kind, at) ==
    [tag |-> "raise", type |-> "RuntimeError", at |-> at,
     why |-> CASE kind \in { "timeout", "flush_timeout" } -> "WiFi scan timed out"
               [] kind = "buffer" -> "WiFi scan failed: No buffer space available (-105)"
               [] OTHER -> "WiFi scan failed"]
NoScanError == [tag |-> "none", type |-> "", at |-> 0, why |-> ""]
\* scan_results, scanner.py:186-188, of the attempt numbered `at`.
Parsed(at) == [tag |-> "result", type |-> "", at |-> at, why |-> ""]
\* scanner.py:202
IwNotFound(at) == [tag |-> "raise", type |-> "RuntimeError", at |-> at,
                   why |-> "iw command not found"]
\* an OSError other than FileNotFoundError passes through every except clause
IwOSError(at) == [tag |-> "raise", type |-> "OSError", at |-> at, why |-> ""]
\* scanner.py:210
ScanFailedAfterRetries ==
    [tag |-> "raise", type |-> "RuntimeError", at |-> 0,
     why |-> "WiFi scan failed after retries"]

\* Variant of WithinRetries that stops one attempt early.
WithinRetriesStrict(a, r) == a < r

\* while attempt <= retries, scanner.py:165
WithinRetries(a, r) == a <= r

ScanIdle ==
    /\ s_pc = "idle"
    /\ flush_cache = TRUE
    /\ retries = DefaultRetries
    /\ attempt = 0
    /\ s_last_error = NoScanError
    /\ s_ret = NoScanError
    /\ s_log = <<>>
    /\ s_slept = 0

ScanInit ==
    /\ s_pc = "loop"
    /\ flush_cache \in BOOLEAN
    /\ retries = DefaultRetries
    /\ attempt = 0
    /\ s_last_error = NoScanError
    /\ s_ret = NoScanError
    /\ s_log = <<>>
    /\ s_slept = 0

\* One pass of the loop body, scanner.py:166-205.
ScanAttempt ==
    /\ s_pc = "loop"
    /\ WithinRetries(attempt, retries)
    /\ \E kind \in AttemptKinds :
         /\ kind = "flush_timeout" => flush_cache
         /\ s_log' = Append(s_log, kind)
         /\ CASE kind = "ok" ->
                   /\ s_ret' = Parsed(attempt + 1)
                   /\ s_pc' = "done"
                   /\ UNCHANGED <<attempt, s_last_error, s_slept>>
              [] kind \in { "notfound", "oserror" } ->
                   /\ s_ret' = IF kind = "notfound" THEN IwNotFound(attempt + 1)
                                                     ELSE IwOSError(attempt + 1)
                   /\ s_pc' = "done"
                   /\ UNCHANGED <<attempt, s_last_error, s_slept>>
              [] OTHER ->
                   /\ s_last_error' = ScanError(kind, attempt + 1)
                   /\ attempt' = attempt + 1
                   /\ s_slept' = s_slept + RetryPause
                   /\ UNCHANGED <<s_pc, s_ret>>
    /\ UNCHANGED <<flush_cache, retries>>
    /\ UNCHANGED <<cmdVars, toolVars, waitVars, candVars, parseVars, bandVars,
                   jsonVars, dbVars>>

\* scanner.py:207-210: the loop has ended without a return.
ScanExhausted ==
    /\ s_pc = "loop"
    /\ ~WithinRetries(attempt, retries)
    /\ s_ret' = IF s_last_error # NoScanError THEN s_last_error
                                               ELSE ScanFailedAfterRetries
    /\ s_pc' = "done"
    /\ UNCHANGED <<flush_cache, retries, attempt, s_last_error, s_log, s_slept>>
    /\ UNCHANGED <<cmdVars, toolVars, waitVars, candVars, parseVars, bandVars,
                   jsonVars, dbVars>>

NextScan == ScanAttempt \/ ScanExhausted

\* ------------------------------------------------ get_band
\* How far on each side of a band edge the frequencies tried reach, in MHz.
BandMargin == 10

\* The edges of the bands named at scanner.py:38-42.
BandEdges == { 2400, 2500, 5000, 6000, 7125 }

\* Frequencies in whole MHz: every value within BandMargin of an edge, some
\* channel centres, and values no band contains.
Frequencies ==
    UNION { (e - BandMargin)..(e + BandMargin) : e \in BandEdges }
        \cup { -1, 0, 2412, 2437, 5180, 5955, 6115 }

\* Variant of get_band that tests the 6GHz range before the 5GHz range.
get_band_6GHzFirst(f) ==
    IF 2400 <= f /\ f <= 2500 THEN "2.4GHz"
    ELSE IF 6000 <= f /\ f <= 7125 THEN "6GHz"
    ELSE IF 5000 <= f /\ f <= 6000 THEN "5GHz"
    ELSE "Unknown"

\* get_band, scanner.py:29-44: the first range that contains f, in the order
\* of the if/elif chain.
get_band(f) ==
    IF 2400 <= f /\ f <= 2500 THEN "2.4GHz"
    ELSE IF 5000 <= f /\ f <= 6000 THEN "5GHz"
    ELSE IF 6000 <= f /\ f <= 7125 THEN "6GHz"
    ELSE "Unknown"

BandIdle ==
    /\ g_pc = "idle"
    /\ freq_mhz = 0
    /\ band = ""

BandInit ==
    /\ g_pc = "call"
    /\ freq_mhz \in Frequencies
    /\ band = ""

GetBand ==
    /\ g_pc = "call"
    /\ band' = get_band(freq_mhz)
    /\ g_pc' = "done"
    /\ UNCHANGED freq_mhz
    /\ UNCHANGED <<cmdVars, toolVars, waitVars, candVars, scanVars, parseVars,
                   jsonVars, dbVars>>

NextBand == GetBand

\* ------------------------------------------------ parse_iw_scan_output
\* Longest input, in lines.
MaxLines == 4
\* Number of distinct station addresses in an input.
MaxBss == 2
\* The clock reads 0..MaxNow.
MaxNow == 1
\* Most lines of a text that is parsed a second time.
MaxAgain == 3

\* One line of `output`, by what the parser can tell about it:
\*   kind   which startswith test it passes ("other": none of them);
\*   ok     whether its token parses: the address for re.match at line 84,
\*          float() for freq, the dBm pattern for signal, int() for channel;
\*   n      the number parsed (the station, for a BSS line);
\*   text   the ssid after strip() (empty when only blanks follow "SSID:").
Line(kind, ok, n, text) == [kind |-> kind, ok |-> ok, n |-> n, text |-> text]

LineAlphabet ==
    { Line("BSS", TRUE, b, <<>>) : b \in 1..MaxBss }
        \cup { Line("BSS", FALSE, 0, <<>>) }
        \cup { Line("SSID", TRUE, 0, <<"h">>), Line("SSID", TRUE, 0, <<>>) }
        \cup { Line("freq", TRUE, 5180, <<>>), Line("freq", FALSE, 0, <<>>) }
        \cup { Line("signal", TRUE, -50, <<>>), Line("signal", FALSE, 0, <<>>) }
        \cup { Line("channel", TRUE, 36, <<>>), Line("channel", FALSE, 0, <<>>) }
        \cup { Line("RSN", TRUE, 0, <<>>), Line("WPA", TRUE, 0, <<>>),
               Line("other", TRUE, 0, <<>>) }

\* current_bss = None, scanner.py:57
NoBss == 0
\* channel=current_data.get("channel") when the key is not set: None
NoChannel == 0
\* security=current_data.get("security") when the key is not set: None
NoSecurity == ""

\* dict.get(key, default)
Get(d, key, default) == IF key \in DOMAIN d THEN d[key] ELSE default

\* d[key] = value
Set(d, key, value) == [k \in DOMAIN d \cup { key } |-> IF k = key THEN value ELSE d[k]]

\* current_bss and current_data.get("ssid") and
\* current_data.get("frequency"), scanner.py:66-70 and scanner.py:131
Qualifies(bss, d) ==
    /\ bss # NoBss
    /\ Truthy(Get(d, "ssid", <<>>))
    /\ Get(d, "frequency", 0) # 0

\* WifiScanResult(...), scanner.py:71-80 and scanner.py:132-141; t is what
\* datetime.now() reads when the record is built.
WifiScanResult(bss, d, t) ==
    [bssid |-> bss,
     ssid |-> Get(d, "ssid", <<>>),
     frequency |-> Get(d, "frequency", 0),
     band |-> get_band(Get(d, "frequency", 0)),
     signal |-> Get(d, "signal", 0),
     channel |-> Get(d, "channel", NoChannel),
     security |-> Get(d, "security", NoSecurity),
     timestamp |-> t]

\* Variant of Emit that appends a record whether or not the block qualifies.
EmitUnchecked(res, bss, d, t) ==
    IF bss # NoBss THEN Append(res, WifiScanResult(bss, d, t)) ELSE res

\* "Save previous BSS if it exists", scanner.py:66-81, and "Don't forget the
\* last BSS", scanner.py:131-142.
Emit(res, bss, d, t) ==
    IF Qualifies(bss, d) THEN Append(res, WifiScanResult(bss, d, t)) ELSE res

\* What datetime.now() can read at scanner.py:79 and scanner.py:140: the clock
\* does not run backwards, and it is read only when a record is built.
Readings(bss, d) == IF Qualifies(bss, d) THEN now..MaxNow ELSE { now }

\* Variant of ParseField in which a frequency, signal or channel token that
\* does not parse empties the fields gathered for the block.
ParseFieldBadTokenFatal(d, ln) ==
    CASE ln.kind = "SSID" -> IF Truthy(ln.text) THEN Set(d, "ssid", ln.text) ELSE d
      [] ln.kind = "freq" -> IF ln.ok THEN Set(d, "frequency", ln.n)
                             ELSE [k \in {} |-> 0]
      [] ln.kind = "signal" -> IF ln.ok THEN Set(d, "signal", ln.n)
                               ELSE [k \in {} |-> 0]
      [] ln.kind = "channel" -> IF ln.ok THEN Set(d, "channel", ln.n)
                                ELSE [k \in {} |-> 0]
      [] ln.kind = "RSN" -> Set(d, "security", "WPA2/WPA3")
      [] ln.kind = "WPA" -> IF "security" \notin DOMAIN d
                            THEN Set(d, "security", "WPA") ELSE d
      [] OTHER -> d

\* Variant of ParseField in which a WPA line sets the security whatever it
\* was.
ParseFieldWpaOverwrites(d, ln) ==
    CASE ln.kind = "SSID" -> IF Truthy(ln.text) THEN Set(d, "ssid", ln.text) ELSE d
      [] ln.kind = "freq" -> IF ln.ok THEN Set(d, "frequency", ln.n) ELSE d
      [] ln.kind = "signal" -> IF ln.ok THEN Set(d, "signal", ln.n) ELSE d
      [] ln.kind = "channel" -> IF ln.ok THEN Set(d, "channel", ln.n) ELSE d
      [] ln.kind = "RSN" -> Set(d, "security", "WPA2/WPA3")
      [] ln.kind = "WPA" -> Set(d, "security", "WPA")
      [] OTHER -> d

\* The field branches, scanner.py:90-128, for a line read inside a block.
ParseField(d, ln) ==
    CASE ln.kind = "SSID" -> IF Truthy(ln.text) THEN Set(d, "ssid", ln.text) ELSE d
      [] ln.kind = "freq" -> IF ln.ok THEN Set(d, "frequency", ln.n) ELSE d
      [] ln.kind = "signal" -> IF ln.ok THEN Set(d, "signal", ln.n) ELSE d
      [] ln.kind = "channel" -> IF ln.ok THEN Set(d, "channel", ln.n) ELSE d
      [] ln.kind = "RSN" -> Set(d, "security", "WPA2/WPA3")
      [] ln.kind = "WPA" -> IF "security" \notin DOMAIN d
                            THEN Set(d, "security", "WPA") ELSE d
      [] OTHER -> d

\* current_data = {}, scanner.py:58 and scanner.py:87
EmptyData == [k \in {} |-> 0]

ParseIdle ==
    /\ p_pc = "idle"
    /\ p_pass = 1
    /\ p_input = <<>>
    /\ p_first = <<>>
    /\ now = 0
    /\ lines = <<>>
    /\ current_bss = NoBss
    /\ current_data = EmptyData
    /\ p_results = <<>>

ParseInit ==
    /\ p_pc = "lines"
    /\ p_pass = 1
    /\ p_input = <<>>
    /\ p_first = <<>>
    /\ now = 0
    /\ lines = <<>>
    /\ current_bss = NoBss
    /\ current_data = EmptyData
    /\ p_results = <<>>

\* The lines `for line in lines` can take next, scanner.py:60-62: any line in
\* the first call, the same text again in the second.
NextLines ==
    IF p_pass = 1
    THEN IF Len(lines) < MaxLines THEN LineAlphabet ELSE {}
    ELSE IF Len(lines) < Len(p_input) THEN { p_input[Len(lines) + 1] } ELSE {}

\* One pass of `for line in lines`, scanner.py:62-128.  A line starting with
\* "BSS " saves the block before it; only when the address matches does it
\* start a new one (84-87).  Any other line is read only inside a block (90).
ParseLine ==
    /\ p_pc = "lines"
    /\ \E ln \in NextLines :
         /\ lines' = Append(lines, ln)
         /\ IF ln.kind = "BSS"
            THEN /\ \E t \in Readings(current_bss, current_data) :
                      /\ p_results' = Emit(p_results, current_bss, current_data, t)
                      /\ now' = t
                 /\ IF ln.ok
                    THEN /\ current_bss' = ln.n
                         /\ current_data' = EmptyData
                    ELSE UNCHANGED <<current_bss, current_data>>
            ELSE /\ current_data' = IF current_bss # NoBss
                                    THEN ParseField(current_data, ln)
                                    ELSE current_data
                 /\ UNCHANGED <<current_bss, p_results, now>>
    /\ UNCHANGED <<p_pc, p_pass, p_input, p_first>>
    /\ UNCHANGED <<cmdVars, toolVars, waitVars, candVars, scanVars, bandVars,
                   jsonVars, dbVars>>

\* The input has ended, scanner.py:130-144.
ParseEnd ==
    /\ p_pc = "lines"
    /\ p_pass = 2 => Len(lines) = Len(p_input)
    /\ \E t \in Readings(current_bss, current_data) :
         /\ p_results' = Emit(p_results, current_bss, current_data, t)
         /\ now' = t
    /\ p_pc' = "done"
    /\ UNCHANGED <<lines, current_bss, current_data, p_pass, p_input, p_first>>
    /\ UNCHANGED <<cmdVars, toolVars, waitVars, candVars, scanVars, bandVars,
                   jsonVars, dbVars>>

\* Variant of ParseAgain in which the second call starts inside the block the
\* first call ended in.
ParseAgainInsideBlock ==
    /\ p_pc = "done"
    /\ p_pass = 1
    /\ Len(lines) <= MaxAgain
    /\ p_pass' = 2
    /\ p_input' = lines
    /\ p_first' = p_results
    /\ lines' = <<>>
    /\ p_results' = <<>>
    /\ p_pc' = "lines"
    /\ UNCHANGED <<now, current_bss, current_data>>
    /\ UNCHANGED <<cmdVars, toolVars, waitVars, candVars, scanVars, bandVars,
                   jsonVars, dbVars>>

\* parse_iw_scan_output called a second time on the text of the first call:
\* results, current_bss and current_data are locals and start afresh,
\* scanner.py:56-60; the clock keeps its reading.
ParseAgain ==
    /\ p_pc = "done"
    /\ p_pass = 1
    /\ Len(lines) <= MaxAgain
    /\ p_pass' = 2
    /\ p_input' = lines
    /\ p_first' = p_results
    /\ lines' = <<>>
    /\ current_bss' = NoBss
    /\ current_data' = EmptyData
    /\ p_results' = <<>>
    /\ p_pc' = "lines"
    /\ UNCHANGED now
    /\ UNCHANGED <<cmdVars, toolVars, waitVars, candVars, scanVars, bandVars,
                   jsonVars, dbVars>>

NextParse == ParseLine \/ ParseEnd \/ ParseAgain

\* ------------------------------------------------------- the JSON parsers
\* parse_ookla_json and parse_iperf3_json, speedtest.py:241-334.
\*
\* What json_output holds, by what the code can tell about it.  A value under
\* a metric key is absent, null, a number, or a string that is no number:
Absent == [t |-> "absent", n |-> 0]
Null == [t |-> "null", n |-> 0]
Num(n) == [t |-> "num", n |-> n]
Str == [t |-> "str", n |-> 0]

\* A value under a section key is absent, or null, a non-zero number or a list
\* of numbers (the three have no .get), or an object with the fields f.
NonObjects == { "null", "number", "list" }
NoFields == [k \in {} |-> Absent]
NonObject(kind) == [kind |-> kind, f |-> NoFields]
Missing == [kind |-> "absent", f |-> NoFields]
Object(f) == [kind |-> "obj", f |-> f]
Bare == { Missing } \cup { NonObject(k) : k \in NonObjects }

\* Speeds are kept in hundredths of Mbps and times in tenths of a
\* millisecond: x / 1_000_000 at speedtest.py:254-255 and 298-299.
ToMbps(n) == n \div (1000000 \div 100)

\* The three ways a parser call ends, in one record shape; SpeedtestResult is
\* speedtest.py:13-28 (the fields the parsers compute).
SpeedtestResult(by, dl, ul, ping, jitter, loss, server) ==
    [tag |-> "result", type |-> "", tool |-> by, download_mbps |-> dl,
     upload_mbps |-> ul, ping_ms |-> ping, jitter_ms |-> jitter,
     packet_loss |-> loss, server |-> server]
ReturnsNone ==
    [tag |-> "none", type |-> "", tool |-> "", download_mbps |-> 0,
     upload_mbps |-> 0, ping_ms |-> 0, jitter_ms |-> 0, packet_loss |-> 0,
     server |-> ""]
Raises(type) ==
    [tag |-> "raise", type |-> type, tool |-> "", download_mbps |-> 0,
     upload_mbps |-> 0, ping_ms |-> 0, jitter_ms |-> 0, packet_loss |-> 0,
     server |-> ""]

\* except (json.JSONDecodeError, TypeError, KeyError), speedtest.py:273 and
\* speedtest.py:332
Caught == { "JSONDecodeError", "TypeError", "KeyError" }

\* One statement of a parser: the value it computes, or the error it raises.
Ok(v) == [err |-> "", v |-> v]
Err(type) == [err |-> type, v |-> 0]

\* The statements in order: the first that raises ends the try block; a
\* caught error returns None, any other leaves the function.
Ends(steps, result) ==
    LET bad == { k \in DOMAIN steps : steps[k].err # "" }
        first == CHOOSE k \in bad : \A j \in bad : k <= j
    IN  IF bad = {} THEN result
        ELSE IF steps[first].err \in Caught THEN ReturnsNone
        ELSE Raises(steps[first].err)

\* section.get(key, default): the field of an object, the default of an
\* absent section ({}), AttributeError of anything else.
FieldOf(sec, key) ==
    IF sec.kind = "obj" /\ key \in DOMAIN sec.f THEN sec.f[key] ELSE Absent

\* `x or 0`: 0 for a missing key (the default), null and 0.
OrZero(v) == IF v.t \in { "absent", "null" } THEN Num(0) ELSE v

\* (section.get(key, 0) or 0) / 1_000_000, speedtest.py:254-255, 298-299: a
\* string divided by a number is a TypeError.
Bandwidth(sec, key) ==
    IF sec.kind \in NonObjects THEN Err("AttributeError")
    ELSE IF OrZero(FieldOf(sec, key)).t = "str" THEN Err("TypeError")
    ELSE Ok(ToMbps(OrZero(FieldOf(sec, key)).n))

\* section.get(key, 0) or 0, speedtest.py:256-257
Plain(sec, key) ==
    IF sec.kind \in NonObjects THEN Err("AttributeError")
    ELSE Ok(OrZero(FieldOf(sec, key)).n)

\* data.get("server", {}).get("name"), speedtest.py:266, and
\* data.get("result", {}).get("url"), speedtest.py:269
Named(sec, key) ==
    IF sec.kind \in NonObjects THEN Err("AttributeError")
    ELSE Ok(IF FieldOf(sec, key).t = "str" THEN "name" ELSE "")

\* Payloads of the Ookla client.  Bandwidths are those of the worked example
\* and latencies are in tenths of a millisecond; ping.latency and ping.jitter
\* are numbers when present (the code passes them through as they are).
OoklaBandwidths == { Absent, Null, Str, Num(12500000), Num(1250000) }
OoklaTimes == { Absent, Null, Num(152), Num(11) }
OoklaSpeedSections ==
    Bare \cup { Object([k \in { "bandwidth" } |-> v]) : v \in OoklaBandwidths }
OoklaPingSections ==
    Bare \cup { Object([k \in { "latency", "jitter" } |->
                            IF k = "latency" THEN l ELSE j]) :
                    l \in OoklaTimes, j \in OoklaTimes }
OoklaNameSections ==
    { Missing, NonObject("list"), Object([k \in { "name", "url" } |-> Str]) }

\* json.loads(json_output), speedtest.py:251 and speedtest.py:288: text that
\* is no JSON, a JSON value that is no object, or an object.
TopKinds == { "malformed" } \cup NonObjects
OoklaPayload(top, download, upload, ping, server, result) ==
    [top |-> top, download |-> download, upload |-> upload, ping |-> ping,
     server |-> server, result |-> result]
OoklaPayloads ==
    { OoklaPayload(top, Missing, Missing, Missing, Missing, Missing) :
          top \in TopKinds }
        \cup { OoklaPayload("obj", d, u, p, s, r) :
                   d \in OoklaSpeedSections, u \in OoklaSpeedSections,
                   p \in OoklaPingSections, s \in OoklaNameSections,
                   r \in OoklaNameSections }

\* speedtest.py:250-275
parse_ookla_json(data) ==
    IF data.top = "malformed" THEN ReturnsNone
    ELSE IF data.top \in NonObjects THEN Raises("AttributeError")
    ELSE LET download_mbps == Bandwidth(data.download, "bandwidth")
             upload_mbps == Bandwidth(data.upload, "bandwidth")
             ping_ms == Plain(data.ping, "latency")
             jitter_ms == Plain(data.ping, "jitter")
             server == Named(data.server, "name")
             result_url == Named(data.result, "url")
         IN  Ends(<<download_mbps, upload_mbps, ping_ms, jitter_ms, server,
                    result_url>>,
                  SpeedtestResult("ookla", download_mbps.v, upload_mbps.v,
                                  ping_ms.v, jitter_ms.v, 0, server.v))

\* Payloads of iperf3.  Rates are those of the worked example; each summary
\* has its own jitter, in tenths of a millisecond, and its own loss percent,
\* so that the one picked can be told.
Iperf3Rates == { Absent, Null, Str, Num(50000000), Num(60000000) }
Iperf3Jitter == [sum_received |-> 11, sum |-> 22, sum_sent |-> 33]
Iperf3Loss == [sum_received |-> 1, sum |-> 2, sum_sent |-> 3]
Iperf3Summaries(name) ==
    Bare \cup { Object([k \in { "bits_per_second", "jitter_ms", "lost_percent" } |->
                            CASE k = "bits_per_second" -> b
                              [] k = "jitter_ms" -> j
                              [] OTHER -> l]) :
                    b \in IF name = "sum" THEN { Absent } ELSE Iperf3Rates,
                    j \in { Absent, Null, Str, Num(Iperf3Jitter[name]) },
                    l \in { Absent, Num(Iperf3Loss[name]) } }
Iperf3Hosts ==
    { Missing, NonObject("number"),
      Object([k \in { "host" } |-> Absent]), Object([k \in { "host" } |-> Str]) }
Iperf3End(kind, sum_sent, sum_received, sum) ==
    [kind |-> kind, sum_sent |-> sum_sent, sum_received |-> sum_received,
     sum |-> sum]
Iperf3Start(kind, connecting_to) == [kind |-> kind, connecting_to |-> connecting_to]
Iperf3Ends ==
    { Iperf3End(k, Missing, Missing, Missing) : k \in { "absent" } \cup NonObjects }
        \cup { Iperf3End("obj", s, r, o) :
                   s \in Iperf3Summaries("sum_sent"),
                   r \in Iperf3Summaries("sum_received"),
                   o \in Iperf3Summaries("sum") }
Iperf3Starts ==
    { Iperf3Start(k, Missing) : k \in { "absent" } \cup NonObjects }
        \cup { Iperf3Start("obj", c) : c \in Iperf3Hosts }
Iperf3Payload(top, end, start) == [top |-> top, end |-> end, start |-> start]
Iperf3Payloads ==
    { Iperf3Payload(top, Iperf3End("absent", Missing, Missing, Missing),
                    Iperf3Start("absent", Missing)) : top \in TopKinds }
        \cup { Iperf3Payload("obj", e, s) : e \in Iperf3Ends, s \in Iperf3Starts }

\* Variant of PickIn that takes a null held under the key as the value 0
\* instead of going on to the next map.
PickInTakesNull(m, key) ==
    CASE m.kind = "number" -> Err("TypeError")
      [] m.kind \in { "absent", "null", "list" } -> Ok(Absent)
      [] FieldOf(m, key).t = "absent" -> Ok(Absent)
      [] FieldOf(m, key).t = "null" -> Ok(Num(0))
      [] FieldOf(m, key).t = "str" -> Err("ValueError")
      [] OTHER -> Ok(FieldOf(m, key))

\* One map of _pick, speedtest.py:305-306: skipped when it is falsy, lacks
\* the key or holds null under it; `key in m` is a TypeError on a number and
\* False on a list of numbers; float() of a string that is no number is a
\* ValueError.
PickIn(m, key) ==
    CASE m.kind = "number" -> Err("TypeError")
      [] m.kind \in { "absent", "null", "list" } -> Ok(Absent)
      [] FieldOf(m, key).t \in { "absent", "null" } -> Ok(Absent)
      [] FieldOf(m, key).t = "str" -> Err("ValueError")
      [] OTHER -> Ok(FieldOf(m, key))

\* _pick(*maps, key, default=0.0), speedtest.py:303-307: the first map that
\* is not skipped decides.
RECURSIVE _pick(_, _)
_pick(maps, key) ==
    IF maps = <<>> THEN Ok(0)
    ELSE LET here == PickIn(Head(maps), key)
         IN  IF here.err # "" THEN here
             ELSE IF here.v # Absent THEN Ok(here.v.n)
             ELSE _pick(Tail(maps), key)

\* Variant of DownloadSummary that reads the sender's summary.
DownloadSummaryOfSender(summary) == summary.sum_sent

\* "Use received data for download (what we got), sent for upload (what we
\* sent)", speedtest.py:297-299.
DownloadSummary(summary) == summary.sum_received

UploadSummary(summary) == summary.sum_sent

\* speedtest.py:287-334
parse_iperf3_json(data) ==
    IF data.top = "malformed" THEN ReturnsNone
    ELSE IF data.top \in NonObjects THEN Raises("AttributeError")
    ELSE IF data.end.kind \in NonObjects THEN Raises("AttributeError")
    ELSE LET sum_sent == data.end.sum_sent
             sum_received == data.end.sum_received
             sum_overall == data.end.sum
             download_mbps == Bandwidth(DownloadSummary(data.end), "bits_per_second")
             upload_mbps == Bandwidth(UploadSummary(data.end), "bits_per_second")
             jitter_ms == _pick(<<sum_received, sum_overall, sum_sent>>, "jitter_ms")
             lost_percent ==
                 _pick(<<sum_received, sum_overall, sum_sent>>, "lost_percent")
             server_host ==
                 IF data.start.kind \in NonObjects THEN Err("AttributeError")
                 ELSE IF data.start.connecting_to.kind \in NonObjects
                 THEN Err("AttributeError")
                 ELSE Ok(IF FieldOf(data.start.connecting_to, "host").t = "str"
                         THEN "name" ELSE "Unknown")
         IN  Ends(<<download_mbps, upload_mbps, jitter_ms, lost_percent,
                    server_host>>,
                  SpeedtestResult("iperf3", download_mbps.v, upload_mbps.v, 0,
                                  jitter_ms.v, lost_percent.v, server_host.v))

JsonIdle ==
    /\ j_pc = "idle"
    /\ j_parser = ""
    /\ payload = <<>>
    /\ j_ret = ReturnsNone

JsonInit ==
    /\ j_pc = "call"
    /\ j_parser \in { "ookla", "iperf3" }
    /\ payload \in IF j_parser = "ookla" THEN OoklaPayloads ELSE Iperf3Payloads
    /\ j_ret = ReturnsNone

ParseOokla ==
    /\ j_pc = "call"
    /\ j_parser = "ookla"
    /\ j_ret' = parse_ookla_json(payload)
    /\ j_pc' = "done"
    /\ UNCHANGED <<j_parser, payload>>
    /\ UNCHANGED <<cmdVars, toolVars, waitVars, candVars, scanVars, parseVars,
                   bandVars, dbVars>>

ParseIperf3 ==
    /\ j_pc = "call"
    /\ j_parser = "iperf3"
    /\ j_ret' = parse_iperf3_json(payload)
    /\ j_pc' = "done"
    /\ UNCHANGED <<j_parser, payload>>
    /\ UNCHANGED <<cmdVars, toolVars, waitVars, candVars, scanVars, parseVars,
                   bandVars, dbVars>>

NextJson == ParseOokla \/ ParseIperf3

\* --------------------------------------------------------------- the store
\* insert_scan_results and insert_speedtest_result, db.py:99-181, on the two
\* tables of _ensure_tables, db.py:48-89, of a database file that starts empty.
\*
\* Records handed to the store in one run, over all calls.
MaxWrites == 3
\* Records in one call of insert_scan_results.
MaxBatch == 2
\* CURRENT_TIMESTAMP reads 0..MaxDbClock.
MaxDbClock == 1

\* r.to_dict() of a WifiScanResult, cli.py:433: each station as two scans saw
\* it, under one name at time 0 and under another, weaker, at time 1.
ScanRecords ==
    { [bssid |-> b, ssid |-> IF t = 0 THEN <<"h">> ELSE <<"g">>,
       frequency |-> 5180, band |-> get_band(5180), signal |-> -50 - t,
       channel |-> 36, security |-> "WPA2/WPA3", timestamp |-> t] :
          b \in 1..MaxBss, t \in 0..1 }

\* result.to_dict() of a SpeedtestResult, speedtest.py:30-32, stamped with the
\* network it was measured on.
SpeedtestRecords ==
    { [tool |-> "iperf3", bssid |-> b, ssid |-> <<"h">>, download_mbps |-> 5000,
       upload_mbps |-> 6000, ping_ms |-> 0, jitter_ms |-> 0, server |-> "name",
       packet_loss |-> 0, timestamp |-> 1] :
          b \in 1..MaxBss }

Batches == UNION { [1..n -> ScanRecords] : n \in 0..MaxBatch }

\* A row of scan_results, db.py:52-63 and the column list at db.py:128.
ScanRow(id, r, created_at) ==
    [id |-> id, timestamp |-> r.timestamp, ssid |-> r.ssid, bssid |-> r.bssid,
     frequency |-> r.frequency, band |-> r.band, signal |-> r.signal,
     channel |-> r.channel, security |-> r.security, created_at |-> created_at]

\* A row of speedtest_results, db.py:68-82 and the column list at
\* db.py:160-161: the table has no bssid column.
SpeedtestRow(id, r, created_at) ==
    [id |-> id, timestamp |-> r.timestamp, tool |-> r.tool, ssid |-> r.ssid,
     download_mbps |-> r.download_mbps, upload_mbps |-> r.upload_mbps,
     ping_ms |-> r.ping_ms, jitter_ms |-> r.jitter_ms, server |-> r.server,
     packet_loss |-> r.packet_loss, created_at |-> created_at]

\* Variant of Upsert that keeps the row a bssid already has.
UpsertKeepsFirst(table, r, at) ==
    IF \E k \in DOMAIN table : table[k].bssid = r.bssid
    THEN table
    ELSE Append(table, ScanRow(Len(table) + 1, r, at))

\* INSERT ... ON CONFLICT(bssid) DO UPDATE SET ..., db.py:127-138: the row of
\* the bssid takes every value of the new record and keeps its id.
Upsert(table, r, at) ==
    IF \E k \in DOMAIN table : table[k].bssid = r.bssid
    THEN [k \in DOMAIN table |->
              IF table[k].bssid = r.bssid THEN ScanRow(table[k].id, r, at)
              ELSE table[k]]
    ELSE Append(table, ScanRow(Len(table) + 1, r, at))

\* conn.executemany(..., rows), db.py:125-141: one statement per record, in
\* the order of the list.
RECURSIVE UpsertAll(_, _, _)
UpsertAll(table, rows, at) ==
    IF rows = <<>> THEN table
    ELSE UpsertAll(Upsert(table, Head(rows), at), Tail(rows), at)

\* What is handed to the store, as db_writes keeps it.
Written(op, rows) == [k \in DOMAIN rows |-> [op |-> op, r |-> rows[k]]]

\* What CURRENT_TIMESTAMP can read in the next call.
DbReadings == { c \in db_clock..(db_clock + 1) : c <= MaxDbClock }

DbIdle ==
    /\ db_pc = "idle"
    /\ scan_results = <<>>
    /\ speedtest_results = <<>>
    /\ db_clock = 0
    /\ db_writes = <<>>

DbInit ==
    /\ db_pc = "open"
    /\ scan_results = <<>>
    /\ speedtest_results = <<>>
    /\ db_clock = 0
    /\ db_writes = <<>>

\* db.py:99-145; an empty list returns 0 and leaves the store alone (119-120).
InsertScanResults ==
    /\ db_pc = "open"
    /\ \E rows \in Batches, at \in DbReadings :
         /\ Len(db_writes) + Len(rows) <= MaxWrites
         /\ scan_results' = UpsertAll(scan_results, rows, at)
         /\ db_clock' = IF rows = <<>> THEN db_clock ELSE at
         /\ db_writes' = db_writes \o Written("scan", rows)
    /\ UNCHANGED <<db_pc, speedtest_results>>
    /\ UNCHANGED <<cmdVars, toolVars, waitVars, candVars, scanVars, parseVars,
                   bandVars, jsonVars>>

\* db.py:148-181
InsertSpeedtestResult ==
    /\ db_pc = "open"
    /\ \E r \in SpeedtestRecords, at \in DbReadings :
         /\ Len(db_writes) + 1 <= MaxWrites
         /\ speedtest_results' =
                Append(speedtest_results,
                       SpeedtestRow(Len(speedtest_results) + 1, r, at))
         /\ db_clock' = at
         /\ db_writes' = Append(db_writes, [op |-> "speedtest", r |-> r])
    /\ UNCHANGED <<db_pc, scan_results>>
    /\ UNCHANGED <<cmdVars, toolVars, waitVars, candVars, scanVars, parseVars,
                   bandVars, jsonVars>>

NextDb == InsertScanResults \/ InsertSpeedtestResult

\* The pure functions and the store, not being called.
FnIdle == CandIdle /\ ScanIdle /\ ParseIdle /\ BandIdle /\ JsonIdle /\ DbIdle

Next ==
    \/ CheckTool
    \/ CheckPrefix
    \/ CheckPassword
    \/ ScanNetworks
    \/ RememberOriginal
    \/ ForNetwork
    \/ ConnectToNetwork
    \/ SingleNetwork

Init == CmdInit /\ ToolIdle /\ WaitIdle /\ FnIdle

Spec == Init /\ [][Next]_vars

InitTool == CmdIdle /\ ToolInit /\ WaitIdle /\ FnIdle

SpecTool == InitTool /\ [][NextTool]_vars

InitWait == CmdIdle /\ ToolIdle /\ WaitInit /\ FnIdle

SpecWait == InitWait /\ [][NextWait]_vars

InitCand ==
    /\ CmdIdle /\ ToolIdle /\ WaitIdle
    /\ CandInit /\ ScanIdle /\ ParseIdle /\ BandIdle
    /\ JsonIdle /\ DbIdle

SpecCand == InitCand /\ [][NextCand]_vars

InitScan ==
    /\ CmdIdle /\ ToolIdle /\ WaitIdle
    /\ CandIdle /\ ScanInit /\ ParseIdle /\ BandIdle
    /\ JsonIdle /\ DbIdle

SpecScan == InitScan /\ [][NextScan]_vars

InitParse ==
    /\ CmdIdle /\ ToolIdle /\ WaitIdle
    /\ CandIdle /\ ScanIdle /\ ParseInit /\ BandIdle
    /\ JsonIdle /\ DbIdle

SpecParse == InitParse /\ [][NextParse]_vars

InitBand ==
    /\ CmdIdle /\ ToolIdle /\ WaitIdle
    /\ CandIdle /\ ScanIdle /\ ParseIdle /\ BandInit
    /\ JsonIdle /\ DbIdle

SpecBand == InitBand /\ [][NextBand]_vars

InitJson ==
    /\ CmdIdle /\ ToolIdle /\ WaitIdle
    /\ CandIdle /\ ScanIdle /\ ParseIdle /\ BandIdle
    /\ JsonInit /\ DbIdle

SpecJson == InitJson /\ [][NextJson]_vars

InitDb ==
    /\ CmdIdle /\ ToolIdle /\ WaitIdle
    /\ CandIdle /\ ScanIdle /\ ParseIdle /\ BandIdle
    /\ JsonIdle /\ DbInit

SpecDb == InitDb /\ [][NextDb]_vars

\* ================================================================ claims
\* Number of calls of `name` the command has made.
CountCalls(name) == Cardinality({ k \in DOMAIN calls : calls[k] = name })

\* The command stopped on a host where the network manager can be run.
Ended == Stopped /\ nmcli = "present"

\* C1 (as claimed): when a campaign over N candidates has ended, exactly one
\* outcome has been recorded per candidate, in candidate order: the outcome
\* list has length N and its k-th entry is the k-th candidate's.
C1_OneOutcomePerCandidate ==
    Ended =>
        /\ Len(results) = Len(networks)
        /\ \A k \in DOMAIN results : results[k].bssid = networks[k].bssid

C3_DisconnectBeforeEveryConnect ==
    /\ \A k \in DOMAIN calls :
           calls[k] = "connect_to_network" =>
               k > 1 /\ calls[k - 1] = "disconnect_network"
    /\ CountCalls("connect_to_network") <= i

\* C3 witness: a connect attempt has been made.
C3_ConnectAttempted ==
    /\ i >= 1
    /\ calls # <<>>
    /\ calls[Len(calls)] = "connect_to_network"

\* C4 (as claimed): a campaign that tested at least one candidate and had a
\* connection to restore has, when it ends, called reconnect_saved_network
\* exactly once.
C4_RestoredExactlyOnce ==
    (Ended /\ networks # <<>> /\ original_bssid # NoBssid) =>
        CountCalls("reconnect_saved_network") = 1

C10_SummaryProduced ==
    (Ended /\ networks # <<>> /\ ~quiet) =>
        /\ CountCalls("_display_multi_network_summary") = 1
        /\ Len(results) = Len(networks)

\* ---- the tool dispatch with the iperf3 tool (both sites)
PortsTriedInOrder ==
    /\ Len(tried) <= Len(Ports)
    /\ \A k \in DOMAIN tried : tried[k].port = Ports[k]
    /\ \A k \in DOMAIN tried : k > 1 => tried[k - 1].port < tried[k].port

\* Positions in `tried` of the runner calls that raised.
RaisedAt == { k \in DOMAIN tried : tried[k].out.tag = "raise" }
LastRaised == CHOOSE k \in RaisedAt : \A j \in RaisedAt : j <= k

\* C7: with iperf3 the ports are tried in the configured ascending order;
\* the first port whose run yields a result ends the loop, its result is
\* what the call returns, and no port is tried after it.
C7_FirstYieldingPortWins ==
    t_tool = "iperf3" =>
        /\ PortsTriedInOrder
        /\ \A k \in DOMAIN tried :
               tried[k].out.tag = "result" =>
                   /\ k = Len(tried)
                   /\ t_pc = "done"
                   /\ t_ret = Result(Ports[k])
        /\ (t_pc = "done" /\ t_ret.tag = "result") =>
               /\ tried # <<>>
               /\ t_ret = tried[Len(tried)].out

\* C7 witness: three ports, the first raised, the second returned nothing,
\* and the third's result was returned.
C7_ThirdPortWins ==
    /\ t_site = "_run_speedtest_for_tool"
    /\ t_tool = "iperf3"
    /\ t_pc = "done"
    /\ Len(tried) = 3
    /\ tried[1].out.tag = "raise"
    /\ tried[2].out.tag = "none"
    /\ t_ret = Result(Ports[3])

\* C8 (as claimed): when every configured port was tried, none produced a
\* result and some port raised, the error surfaced is the last port's.
C8_LastPortErrorSurfaced ==
    ( /\ t_tool = "iperf3"
      /\ t_pc = "done"
      /\ tried # <<>>
      /\ Len(tried) = Len(Ports)
      /\ RaisedAt # {}
      /\ \A k \in DOMAIN tried : tried[k].out.tag # "result" ) =>
        /\ t_ret.tag = "raise"
        /\ t_ret.port = tried[Len(tried)].port

\* C8 (amended): when no tried port produced a result the call raises, never
\* returns: the error most recently raised by a port (an earlier port's when
\* the later ones returned nothing), or "All iperf3 ports failed" when no
\* port raised.
C8_LastRaisedErrorSurfaced ==
    ( /\ t_tool = "iperf3"
      /\ t_server # ""
      /\ t_pc = "done"
      /\ \A k \in DOMAIN tried : tried[k].out.tag # "result" ) =>
        /\ t_ret.tag = "raise"
        /\ t_ret = IF RaisedAt # {} THEN tried[LastRaised].out ELSE AllPortsFailed

\* C8 witness: in the single-network block, two ports, both raised
\* RuntimeError, the second one's is surfaced.
C8_SecondErrorSurfaced ==
    /\ t_site = "speedtest"
    /\ t_tool = "iperf3"
    /\ t_pc = "done"
    /\ Len(tried) = 2
    /\ tried[1].out.type = "RuntimeError"
    /\ tried[2].out.type = "RuntimeError"
    /\ t_ret = tried[2].out

\* C9 (as claimed): in the campaign's dispatch, for either tool, when every
\* runner call returned an empty result without raising the outcome status is
\* test_failed, and when the last runner call raised it is error.
C9_EmptyIsTestFailedRaiseIsError ==
    (t_site = "_run_speedtest_for_tool" /\ t_pc = "done" /\ tried # <<>>) =>
        /\ (\A k \in DOMAIN tried : tried[k].out.tag = "none") =>
               OutcomeStatus(t_ret) = "test_failed"
        /\ tried[Len(tried)].out.tag = "raise" => OutcomeStatus(t_ret) = "error"

\* ---- wait_for_connection
\* C5 (as claimed): when wait_for_connection has returned and the state it
\* last read is not the connected state, the campaign's `connected` is false
\* (the outcome is connection_failed) even though connect_to_network
\* reported success.
C5_NeverConnectedIsConnectionFailed ==
    (w_pc = "done" /\ w_state # StateConnected) => ~Connected(TRUE, w_ret)

\* ---- restoration
\* C11 (as claimed): once the pre-campaign link has been recorded with an
\* ssid but without a bssid, the restoration step still attempts to restore
\* it (by ssid).
C11_RestoredBySsidWithoutBssid ==
    ( /\ pc \in { "for_network", "connect", "stopped" }
      /\ CountCalls("get_current_bssid") = 1
      /\ Truthy(original_ssid)
      /\ original_bssid = NoBssid ) =>
        RestorationAttempted(original_bssid, original_ssid)

\* ---- setup errors
\* C14: while the tool, prefix and credential checks are being made no
\* collaborator has been called; a command that stops at the tool check stops
\* with Exit(1) and an empty call log; and an auto-connect command without a
\* prefix or without a credential ends with Exit(1) and an empty call log:
\* no scan, disconnect or connect was invoked.
C14_SetupErrorsBeforeAnyNetworkCall ==
    /\ [](pc \in { "check_tool", "check_prefix", "check_password" } => calls = <<>>)
    /\ []((Stopped /\ auto_connect /\ (~Truthy(Prefix) \/ ~password)) =>
              (exit = "Exit(1)" /\ calls = <<>>))
    /\ [][(pc = "check_tool" /\ pc' = "stopped") =>
              (exit' = "Exit(1)" /\ calls' = <<>>)]_vars

\* C14 witness: an auto-connect command with a prefix and no credential has
\* ended with Exit(1), nothing called.
C14_StoppedForMissingCredential ==
    /\ auto_connect
    /\ Truthy(Prefix)
    /\ ~password
    /\ exit = "Exit(1)"
    /\ calls = <<>>

\* C15 (as claimed): in a campaign with the iperf3 tool and no server
\* configured, no interface disconnect and no connection attempt is ever
\* made and no outcome is recorded.
C15_NoServerNoNetworkWork ==
    (auto_connect /\ tool = "iperf3" /\ iperf3_server = "") =>
        /\ CountCalls("disconnect_network") = 0
        /\ CountCalls("connect_to_network") = 0
        /\ results = <<>>

\* ---- the candidate list
\* Positions of the scan whose ssid starts with the prefix.
Matching == { k \in DOMAIN c_scan : StartsWith(c_scan[k].ssid, c_prefix) }

\* Network a is tested before network b: it has the stronger signal, or the
\* same signal and the earlier place in the scan (a scan's k-th network has
\* bssid k).
RanksBefore(a, b) ==
    \/ a.signal > b.signal
    \/ a.signal = b.signal /\ a.bssid < b.bssid

\* C16: the candidate list holds networks of the scan whose ssid starts with
\* the prefix, each once, in descending signal order with equal signals in
\* scan order; without a positive limit it holds every matching network, and
\* with a positive limit the first `limit` of them in that order (all of
\* them when there are fewer).  These conditions fix the list, so one scan
\* gives one candidate order.
C16_FilteredSortedStableCapped ==
    c_pc = "done" =>
        LET chosen == { c_networks[j].bssid : j \in DOMAIN c_networks }
            cap == IF c_limit.given /\ c_limit.n > 0
                   THEN c_limit.n ELSE Cardinality(Matching)
        IN /\ \A j \in DOMAIN c_networks :
                  /\ c_networks[j].bssid \in Matching
                  /\ c_networks[j] = c_scan[c_networks[j].bssid]
           /\ \A j, k \in DOMAIN c_networks :
                  j < k => RanksBefore(c_networks[j], c_networks[k])
           /\ Len(c_networks) = IF cap < Cardinality(Matching)
                                THEN cap ELSE Cardinality(Matching)
           /\ \A m \in Matching \ chosen :
                  \A j \in DOMAIN c_networks : RanksBefore(c_networks[j], c_scan[m])

\* C16 witness: three matching networks, the second and third scanned being
\* the strongest with equal signals, limit 2: they are the candidates, in
\* scan order.
C16_TieKeptInScanOrderThenCut ==
    /\ c_pc = "done"
    /\ Cardinality(Matching) = 3
    /\ c_limit = [given |-> TRUE, n |-> 2]
    /\ c_scan[1].signal < c_scan[2].signal
    /\ c_scan[2].signal = c_scan[3].signal
    /\ c_networks = <<c_scan[2], c_scan[3]>>

\* ---- scan_wifi
\* The k-th attempt failed by timing out or exiting non-zero.
FailedAttempt(k) == s_log[k] \in { "timeout", "flush_timeout", "buffer", "nonzero" }

\* C17: scan_wifi makes at most 3 attempts (2 retries); an attempt is made
\* only after every earlier one failed by timeout or non-zero exit, each
\* followed by one pause of 1 s; the first attempt that succeeds ends the
\* call with its parsed output; and a call whose last attempt failed that way
\* ends only after 3 such attempts, raising the error recorded by the third.
C17_RetriesTwiceThenRaisesLastError ==
    /\ Len(s_log) <= 3
    /\ \A k \in DOMAIN s_log : k < Len(s_log) => FailedAttempt(k)
    /\ s_pc = "loop" => s_slept = Len(s_log)
    /\ (s_pc = "done" /\ s_ret.tag = "result") =>
           /\ s_log[Len(s_log)] = "ok"
           /\ s_ret = Parsed(Len(s_log))
           /\ s_slept = Len(s_log) - 1
    /\ (s_pc = "done" /\ s_log # <<>> /\ s_log[Len(s_log)] = "ok") =>
           s_ret.tag = "result"
    /\ (s_pc = "done" /\ s_log # <<>> /\ FailedAttempt(Len(s_log))) =>
           /\ Len(s_log) = 3
           /\ s_ret = ScanError(s_log[3], 3)

\* C17 witness: three failed attempts (a timeout, a full buffer, another
\* non-zero exit), and the call raised the third one's error.
C17_ThirdErrorRaised ==
    /\ s_pc = "done"
    /\ s_log = <<"timeout", "buffer", "nonzero">>
    /\ s_slept = 3
    /\ s_ret = ScanError("nonzero", 3)

\* ---- single-network mode
\* C18: a command run without --auto-connect never calls scan_wifi,
\* disconnect_network, connect_to_network, wait_for_connection, has_internet
\* or reconnect_saved_network: the only collaborators it calls are the
\* speed-test runner, the two link queries and the store.
C18_SingleModeLeavesTheLinkAlone ==
    ~auto_connect =>
        /\ \A k \in DOMAIN calls :
               calls[k] \notin { "scan_wifi", "disconnect_network", "connect_to_network",
                                 "wait_for_connection", "has_internet",
                                 "reconnect_saved_network" }
        /\ \A k \in DOMAIN calls :
               calls[k] \in { "run_iperf3_speedtest", "run_ookla_speedtest",
                              "get_current_ssid", "get_current_bssid",
                              "insert_speedtest_result" }
        /\ networks = <<>>
        /\ results = <<>>

\* C18 witness: a single-network iperf3 run tried two ports, read the link
\* and returned.
C18_SingleRunCompleted ==
    /\ ~auto_connect
    /\ exit = "return"
    /\ CountCalls("run_iperf3_speedtest") = 2
    /\ CountCalls("get_current_bssid") = 1

\* ---- get_band
\* C20: get_band(f) is 2.4GHz exactly when 2400 <= f <= 2500, 5GHz exactly
\* when 5000 <= f <= 6000, 6GHz exactly when 6000 < f <= 7125 and Unknown
\* exactly when f is in none of these ranges; in particular f = 6000 gives
\* 5GHz.
C20_BandByFirstMatchingRange ==
    g_pc = "done" =>
        /\ band = "2.4GHz" <=> (2400 <= freq_mhz /\ freq_mhz <= 2500)
        /\ band = "5GHz" <=> (5000 <= freq_mhz /\ freq_mhz <= 6000)
        /\ band = "6GHz" <=> (6000 < freq_mhz /\ freq_mhz <= 7125)
        /\ band = "Unknown" <=>
               \/ freq_mhz < 2400
               \/ 2500 < freq_mhz /\ freq_mhz < 5000
               \/ 7125 < freq_mhz
        /\ freq_mhz = 6000 => band = "5GHz"

\* C20 witness: get_band(6000) has returned 5GHz.
C20_SharedEdgeIs5GHz ==
    /\ g_pc = "done"
    /\ freq_mhz = 6000
    /\ band = "5GHz"

\* ---- parse_iw_scan_output
\* Positions of the lines that start with "BSS ".
Delimiters == { k \in DOMAIN lines : lines[k].kind = "BSS" }

\* The lines of the block opened at position k: those after it up to the
\* next line starting with "BSS ", or to the end of the input.
BlockLines(k) ==
    { j \in (k + 1)..Len(lines) : \A d \in Delimiters : d > k => j < d }

\* The block opened at k has a non-empty SSID and a parsed frequency.
HasSsidAndFrequency(k) ==
    /\ \E j \in BlockLines(k) : lines[j].kind = "SSID" /\ lines[j].text # <<>>
    /\ \E j \in BlockLines(k) : lines[j].kind = "freq" /\ lines[j].ok

QualifyingBlocks == { k \in Delimiters : HasSsidAndFrequency(k) }

\* Every line starting with "BSS " carries a station address, as in the
\* output of iw.
WellDelimited == \A k \in Delimiters : lines[k].ok

\* C19: no emitted network has an empty ssid or lacks a frequency; and when
\* the input has been parsed, the networks emitted are those of the blocks
\* that have both, one each and in input order, so a block without an SSID
\* or without a parsed frequency is dropped whether it is followed by another
\* block or ends the input.
C19_BlocksWithoutSsidOrFrequencyDropped ==
    /\ \A j \in DOMAIN p_results :
           p_results[j].ssid # <<>> /\ p_results[j].frequency # 0
    /\ (p_pc = "done" /\ WellDelimited) =>
           /\ Len(p_results) = Cardinality(QualifyingBlocks)
           /\ \A k \in QualifyingBlocks :
                  p_results[Cardinality({ m \in QualifyingBlocks : m <= k })].bssid
                      = lines[k].n

\* C19 witness: a block without an SSID followed by a complete block, parsed
\* to the end: only the second is emitted.
C19_DroppedBlockThenEmittedBlock ==
    /\ p_pc = "done"
    /\ Len(lines) = 4
    /\ lines[1] = Line("BSS", TRUE, 1, <<>>)
    /\ lines[2] = Line("BSS", TRUE, 2, <<>>)
    /\ QualifyingBlocks = { 2 }
    /\ Len(p_results) = 1
    /\ p_results[1].bssid = 2

\* A record without the clock's reading.
Unstamped(r) == [k \in DOMAIN r \ { "timestamp" } |-> r[k]]

\* The same text has been parsed a second time, to the end.
ParsedTwice == p_pass = 2 /\ p_pc = "done"

Returned(parser) == j_pc = "done" /\ j_parser = parser

\* C22: neither parser raises, whatever json_output holds.
C22_ParsersNeverRaise == j_pc = "done" => j_ret.tag # "raise"

\* bits_per_second of a summary, 0 when the summary or the key is missing or
\* null.
RateOf(sec) ==
    IF sec.kind = "obj" /\ sec.f["bits_per_second"].t = "num"
    THEN sec.f["bits_per_second"].n
    ELSE 0

\* C23: a result of parse_iperf3_json has the receiver summary's
\* bits_per_second over 1,000,000 as download, the sender summary's as
\* upload, and a ping of 0 (speeds are in hundredths of Mbps).
C23_ReceivedIsDownloadSentIsUpload ==
    (Returned("iperf3") /\ j_ret.tag = "result") =>
        /\ j_ret.download_mbps * 10000 = RateOf(payload.end.sum_received)
        /\ j_ret.upload_mbps * 10000 = RateOf(payload.end.sum_sent)
        /\ j_ret.ping_ms = 0

\* C23 witness: the worked example, 50 Mbit/s received and 60 Mbit/s sent,
\* parsed to download 50.00 and upload 60.00.
C23_FiftyDownSixtyUp ==
    /\ Returned("iperf3")
    /\ RateOf(payload.end.sum_received) = 50000000
    /\ RateOf(payload.end.sum_sent) = 60000000
    /\ j_ret.tag = "result"
    /\ j_ret.download_mbps = 5000
    /\ j_ret.upload_mbps = 6000

\* The payload of the worked example: download.bandwidth 12500000,
\* upload.bandwidth 1250000, ping.latency 15.2, ping.jitter 1.1.
OoklaExample ==
    OoklaPayload("obj",
                 Object([k \in { "bandwidth" } |-> Num(12500000)]),
                 Object([k \in { "bandwidth" } |-> Num(1250000)]),
                 Object([k \in { "latency", "jitter" } |->
                             IF k = "latency" THEN Num(152) ELSE Num(11)]),
                 Missing, Missing)

\* C24: the worked example parses to download 100.0 Mbps, upload 10.0 Mbps,
\* ping 15.2 ms and jitter 1.1 ms.
C24_ExampleGivesHundredMbps ==
    (Returned("ookla") /\ payload = OoklaExample) =>
        /\ j_ret.tag = "result"
        /\ j_ret.download_mbps = 10000
        /\ j_ret.upload_mbps = 1000
        /\ j_ret.ping_ms = 152
        /\ j_ret.jitter_ms = 11

\* The writes of one kind made for a bssid, as places in db_writes.
WritesFor(op, b) ==
    { k \in DOMAIN db_writes : db_writes[k].op = op /\ db_writes[k].r.bssid = b }

\* The record most recently handed to insert_scan_results for a bssid.
LastScanWrite(b) ==
    db_writes[CHOOSE k \in WritesFor("scan", b) :
                  \A j \in WritesFor("scan", b) : j <= k].r

\* The network rows the store holds for a bssid.
NetworkRows(b) == { k \in DOMAIN scan_results : scan_results[k].bssid = b }

\* The fields of a network that a write sets.
NetworkFields ==
    { "ssid", "frequency", "band", "signal", "channel", "security", "timestamp" }

\* C25: the store holds at most one network row per bssid, none for a bssid
\* never written, and the row's ssid, frequency, band, signal, channel,
\* security and timestamp are those of the most recent write for the bssid.
C25_OneRowPerBssidLastWriteWins ==
    \A b \in 1..MaxBss :
        /\ Cardinality(NetworkRows(b)) <= 1
        /\ (WritesFor("scan", b) = {}) <=> (NetworkRows(b) = {})
        /\ \A k \in NetworkRows(b) :
               \A f \in NetworkFields : scan_results[k][f] = LastScanWrite(b)[f]

\* C25 witness: a bssid written twice, under another name and at another
\* time the second time, has one row, which holds the second write.
C25_SecondWriteReplacedFirst ==
    \E j, k \in WritesFor("scan", 1) :
        /\ j < k
        /\ db_writes[j].r.ssid # db_writes[k].r.ssid
        /\ db_writes[j].r.timestamp # db_writes[k].r.timestamp
        /\ LastScanWrite(1) = db_writes[k].r
        /\ Cardinality(NetworkRows(1)) = 1
        /\ \A n \in NetworkRows(1) : scan_results[n].ssid = db_writes[k].r.ssid

\* The rows of speedtest_results that hold a result written for a bssid: the
\* n-th row holds the n-th result written.
ResultRows(b) ==
    { n \in DOMAIN speedtest_results :
          \E k \in WritesFor("speedtest", b) :
              Cardinality({ j \in 1..k : db_writes[j].op = "speedtest" }) = n }

\* C26: once a result has been stored for a bssid that has a network row,
\* the store holds exactly one record for that bssid, and it has both the
\* network fields and the result fields.
C26_ResultMergedIntoNetworkRecord ==
    \A b \in 1..MaxBss :
        (WritesFor("scan", b) # {} /\ WritesFor("speedtest", b) # {}) =>
            /\ Cardinality(NetworkRows(b)) + Cardinality(ResultRows(b)) = 1
            /\ \A k \in NetworkRows(b) :
                   { "download_mbps", "upload_mbps" } \subseteq DOMAIN scan_results[k]

\* C28: when the test of a candidate succeeds, the result is stamped with the
\* ssid the interface reports, whenever it reports one, rather than with the
\* candidate's ssid from the scan.
C28_StampedWithLiveSsid ==
    pc = "connect" =>
        \A s \in LinkSsids, b \in LinkBssids :
            Truthy(s) => StampSuccess(networks[i], s, b).ssid = s

\* C29: an external command that hangs does not block a driver operation;
\* for wait_for_connection, the call is never left waiting on its nmcli
\* query with nothing to end the wait.
C29_HungCommandDoesNotBlock == w_pc # "blocked"

\* C30: disconnect_network never raises, so no campaign is ever ended by
\* the reset of the interface at the head of a cycle: a command that stopped
\* inside a cycle without having asked for a connection did not stop on an
\* error of the disconnect.
C30_DisconnectNeverAbortsCampaign ==
    (Stopped /\ i >= 1 /\ CountCalls("connect_to_network") < i) =>
        exit # "FileNotFoundError"

\* ---- the three port loops
\* The loops over cfg.get_iperf3_ports(): the campaign's function, and the
\* non-quiet and quiet blocks of single-network mode.
Loops == { "_run_speedtest_for_tool", "speedtest", "speedtest --quiet" }

\* The loop `loop` run from its k-th port on against the runner outcomes
\* recorded in `tried`: how it ends and how many ports it tries (one more
\* than recorded when it would go on where the recorded run stopped).
RECURSIVE Replay(_, _, _)
Replay(loop, k, lastErr) ==
    IF k > Len(Ports)
    THEN [ret |-> CASE loop = "_run_speedtest_for_tool" -> Exhausted(lastErr)
                    [] loop = "speedtest" -> SingleExhausted(lastErr)
                    [] OTHER -> QuietExhausted(lastErr),
          runs |-> k - 1]
    ELSE IF k > Len(tried) THEN [ret |-> NoResult, runs |-> k]
    ELSE LET step == CASE loop = "_run_speedtest_for_tool" -> PortStep(lastErr, tried[k].out)
                       [] loop = "speedtest" -> SinglePortStep(lastErr, tried[k].out)
                       [] OTHER -> QuietPortStep(lastErr, tried[k].out)
         IN  IF step.go = "continue" THEN Replay(loop, k + 1, step.last_error)
             ELSE [ret |-> step.ret, runs |-> k]

\* How a loop ends, as far as the tool's user can tell: with the result of a
\* port, with an exception of the runner that is no RuntimeError, or in
\* failure.
Ending(ret) ==
    CASE ret.tag = "result" -> [kind |-> "result", port |-> ret.port, type |-> ""]
      [] ret.tag = "raise" /\ ret.type \notin { "RuntimeError", "Exit" } ->
            [kind |-> "raise", port |-> ret.port, type |-> ret.type]
      [] OTHER -> [kind |-> "failure", port |-> 0, type |-> ""]

\* An iperf3 dispatch with a server has ended.
PortLoopDone == t_pc = "done" /\ t_tool = "iperf3" /\ t_server # ""

\* C31: against the runner outcomes one port loop met, each of the three
\* loops tries the same ports, in the configured order, and ends the same
\* way: with the same port's result, or in failure.
C31_ThreeLoopsSamePortsSameEnding ==
    PortLoopDone =>
        \A loop \in Loops :
            /\ Replay(loop, 1, NoError).runs = Len(tried)
            /\ Ending(Replay(loop, 1, NoError).ret) = Ending(t_ret)
            /\ \A k \in DOMAIN tried : tried[k].port = Ports[k]

\* C31 witness: the first port timed out, the second returned nothing and
\* the third gave a result; the quiet loop, run against the same outcomes,
\* ends with the third port's result too.
C31_ThirdPortWinsInEveryLoop ==
    /\ PortLoopDone
    /\ Len(tried) = 3
    /\ tried[1].out.tag = "raise"
    /\ tried[2].out.tag = "none"
    /\ t_ret = Result(Ports[3])
    /\ Replay("speedtest --quiet", 1, NoError) = [ret |-> Result(Ports[3]), runs |-> 3]

\* ---- the fields of a block
\* The last line read that starts with "BSS ".
LastDelimiter == CHOOSE k \in Delimiters : \A d \in Delimiters : d <= k

\* The place among the emitted networks of the qualifying block opened at k.
RankOf(k) == Cardinality({ m \in QualifyingBlocks : m <= k })

\* What the marker lines among the lines S make the security.
SecurityOf(S) ==
    IF \E j \in S : lines[j].kind = "RSN" THEN "WPA2/WPA3"
    ELSE IF \E j \in S : lines[j].kind = "WPA" THEN "WPA"
    ELSE NoSecurity

\* C32: in a text whose "BSS " lines all carry an address, the security
\* gathered for the block being read, and the security of every record
\* emitted, is WPA2/WPA3 when the block has an RSN line, WPA when it has WPA
\* lines only, and absent when it has neither, whatever their order and
\* number.
C32_SecurityByStrongestMarker ==
    WellDelimited =>
        /\ Delimiters # {} =>
               Get(current_data, "security", NoSecurity)
                   = SecurityOf(BlockLines(LastDelimiter))
        /\ p_pc = "done" =>
               \A k \in QualifyingBlocks :
                   p_results[RankOf(k)].security = SecurityOf(BlockLines(k))

\* C32 witness: a block with the markers WPA, RSN, WPA in that order has
\* security WPA2/WPA3.
C32_WpaAfterRsnKeepsRsn ==
    /\ Len(lines) = 4
    /\ lines[1] = Line("BSS", TRUE, 1, <<>>)
    /\ lines[2].kind = "WPA"
    /\ lines[3].kind = "RSN"
    /\ lines[4].kind = "WPA"
    /\ current_data["security"] = "WPA2/WPA3"

\* The number of the last line of `kind` among the lines S whose token
\* parses, 0 when there is none.
LastParsed(S, kind) ==
    LET good == { j \in S : lines[j].kind = kind /\ lines[j].ok }
    IN  IF good = {} THEN 0
        ELSE lines[CHOOSE j \in good : \A m \in good : m <= j].n

\* The last non-empty ssid among the lines S, empty when there is none.
LastSsid(S) ==
    LET good == { j \in S : lines[j].kind = "SSID" /\ lines[j].text # <<>> }
    IN  IF good = {} THEN <<>>
        ELSE lines[CHOOSE j \in good : \A m \in good : m <= j].text

\* The fields d agree with the lines S: each is that of the last line of its
\* kind whose token parses, and is unset when the block has no such line.
FieldsFollow(d, S) ==
    /\ Get(d, "ssid", <<>>) = LastSsid(S)
    /\ Get(d, "frequency", 0) = LastParsed(S, "freq")
    /\ Get(d, "signal", 0) = LastParsed(S, "signal")
    /\ Get(d, "channel", NoChannel) = LastParsed(S, "channel")

\* A frequency, signal or channel line whose token does not parse.
Malformed(ln) == ln.kind \in { "freq", "signal", "channel" } /\ ~ln.ok

\* C33: in a text whose "BSS " lines all carry an address, a frequency,
\* signal or channel line whose token does not parse changes nothing: after
\* every line the fields gathered for the block are those of the lines whose
\* tokens parse, parsing goes on to the end of the text, and every record
\* emitted has the fields of its block's well-formed lines.
C33_MalformedTokenOnlyLeavesFieldUnset ==
    /\ p_pc \in { "lines", "done" }
    /\ WellDelimited =>
           /\ Delimiters # {} => FieldsFollow(current_data, BlockLines(LastDelimiter))
           /\ p_pc = "done" =>
                  \A k \in QualifyingBlocks :
                      FieldsFollow(Unstamped(p_results[RankOf(k)]), BlockLines(k))

\* C33 witness: a block with an ssid, a channel that does not parse and then
\* a good frequency is emitted with that ssid and frequency and without a
\* channel.
C33_RecordSurvivesBadToken ==
    /\ p_pc = "done"
    /\ Len(lines) = 4
    /\ lines[1] = Line("BSS", TRUE, 1, <<>>)
    /\ lines[2].kind = "SSID"
    /\ Malformed(lines[3]) /\ lines[3].kind = "channel"
    /\ lines[4] = Line("freq", TRUE, 5180, <<>>)
    /\ Len(p_results) = 1
    /\ p_results[1].ssid = <<"h">>
    /\ p_results[1].frequency = 5180
    /\ p_results[1].channel = NoChannel

\* C34: when the text has been parsed, the records are those of the
\* qualifying blocks, one for each, in the order of the blocks' "BSS " lines.
C34_OneRecordPerQualifyingBlockInOrder ==
    p_pc = "done" =>
        /\ Len(p_results) = Cardinality(QualifyingBlocks)
        /\ \A k \in QualifyingBlocks : p_results[RankOf(k)].bssid = lines[k].n

\* The record r is that of the block opened at k: its bssid is the address
\* of line k and each of its fields comes from the lines of that block.
RecordOfBlock(r, k) ==
    /\ lines[k].ok
    /\ r.bssid = lines[k].n
    /\ FieldsFollow(Unstamped(r), BlockLines(k))
    /\ r.security = SecurityOf(BlockLines(k))

\* C39: the emitted records are records of distinct blocks: each takes its
\* bssid from the "BSS " line that opened its block and its fields from the
\* lines up to the next line starting with "BSS ", and no block is the
\* source of two records.
C39_RecordsOfDistinctBlocks ==
    \E f \in [DOMAIN p_results -> Delimiters \cup { 0 }] :
        /\ \A j \in DOMAIN p_results : f[j] # 0 /\ RecordOfBlock(p_results[j], f[j])
        /\ \A j, m \in DOMAIN p_results : f[j] = f[m] => j = m

\* ---- parse_iperf3_json: jitter and loss
\* The summaries of the payload in the order receiver, overall, sender.
SummariesInOrder ==
    <<payload.end.sum_received, payload.end.sum, payload.end.sum_sent>>

\* The number the summary at position k holds under key, 0 when it holds
\* something else.
NumberAt(k, key) ==
    IF FieldOf(SummariesInOrder[k], key).t = "num"
    THEN FieldOf(SummariesInOrder[k], key).n
    ELSE 0

\* The value of the first summary among the positions S, 0 when S is empty.
FirstOf(S, key) ==
    IF S = {} THEN 0
    ELSE NumberAt(CHOOSE k \in S : \A m \in S : k <= m, key)

\* The summaries that contain the key, whatever they hold under it.
Containing(key) ==
    { k \in 1..3 : FieldOf(SummariesInOrder[k], key).t # "absent" }

\* The summaries that hold a value other than null under the key.
Holding(key) ==
    { k \in 1..3 : FieldOf(SummariesInOrder[k], key).t \notin { "absent", "null" } }

\* C35 as stated: a result of parse_iperf3_json has the jitter and the loss
\* percent of the first of the receiver, overall and sender summaries that
\* contains the field, and 0 when none contains it.
C35_FirstSummaryContainingField ==
    (Returned("iperf3") /\ j_ret.tag = "result") =>
        /\ j_ret.jitter_ms = FirstOf(Containing("jitter_ms"), "jitter_ms")
        /\ j_ret.packet_loss = FirstOf(Containing("lost_percent"), "lost_percent")

\* C35 amended: a result of parse_iperf3_json has the jitter and the loss
\* percent of the first of the receiver, overall and sender summaries that
\* holds a value other than null under the field, and 0 when none does; a
\* summary that holds null under the field is passed over.
C35_FirstSummaryHoldingValue ==
    (Returned("iperf3") /\ j_ret.tag = "result") =>
        /\ j_ret.jitter_ms = FirstOf(Holding("jitter_ms"), "jitter_ms")
        /\ j_ret.packet_loss = FirstOf(Holding("lost_percent"), "lost_percent")

\* C35 witness: the receiver summary holds null under jitter_ms and no
\* lost_percent, the overall summary holds both: the result has the overall
\* summary's jitter and loss.
C35_NullJitterPassedOver ==
    /\ Returned("iperf3")
    /\ j_ret.tag = "result"
    /\ FieldOf(payload.end.sum_received, "jitter_ms") = Null
    /\ FieldOf(payload.end.sum_received, "lost_percent") = Absent
    /\ FieldOf(payload.end.sum, "jitter_ms") = Num(22)
    /\ FieldOf(payload.end.sum, "lost_percent") = Num(2)
    /\ FieldOf(payload.end.sum_sent, "jitter_ms") = Num(33)
    /\ j_ret.jitter_ms = 22
    /\ j_ret.packet_loss = 2

\* ---- the campaign without candidates
\* The calls that change or read the link of the interface.
LinkCalls ==
    { "disconnect_network", "connect_to_network", "wait_for_connection",
      "reconnect_saved_network", "get_current_ssid", "get_current_bssid" }

\* C36: a campaign whose scan returned and left no candidate after the
\* prefix filter and the cap has returned normally, and has called none of
\* disconnect_network, connect_to_network and reconnect_saved_network (nor
\* read the link to restore).
C36_NoCandidateNoLinkCall ==
    (auto_connect /\ CountCalls("scan_wifi") = 1 /\ exit # "Exit(1)"
        /\ networks = <<>>) =>
        /\ pc = "stopped"
        /\ exit = "return"
        /\ \A name \in LinkCalls : CountCalls(name) = 0
        /\ CountCalls("insert_scan_results") = 0

\* C36 witness: a campaign with a prefix and a cap has scanned, found no
\* candidate and returned.
C36_ReturnedAfterEmptyScan ==
    /\ auto_connect
    /\ Prefix = <<"l">>
    /\ limit.given /\ limit.n = 1
    /\ calls # <<>>
    /\ calls[Len(calls)] = "scan_wifi"
    /\ networks = <<>>
    /\ exit = "return"

\* ---- the recorded link
\* Every call of `first` in the log comes before every call of `second`.
AllBefore(first, second) ==
    \A j, k \in DOMAIN calls :
        (calls[j] = first /\ calls[k] = second) => j < k

\* C37: once a campaign has recorded the link, the ssid and the bssid were
\* each read once, after the scan and before the first disconnect; and when
\* the campaign has ended with a recorded bssid, the restoration has called
\* reconnect_saved_network with the recorded values.
C37_LinkReadOnceAndRestored ==
    (auto_connect /\ CountCalls("get_current_bssid") >= 1) =>
        /\ CountCalls("get_current_ssid") = 1
        /\ CountCalls("get_current_bssid") = 1
        /\ AllBefore("scan_wifi", "get_current_ssid")
        /\ AllBefore("get_current_bssid", "disconnect_network")
        /\ (Ended /\ original_bssid # NoBssid) =>
               /\ Restoration(original_bssid, original_ssid) = "reconnect_saved_network"
               /\ CountCalls("reconnect_saved_network") = 1
====
